---- MODULE Spec2Model ----
(***************************************************************************)
(* Model of src/rpc/mining.cpp: the getblocktemplate template cache and    *)
(* long-poll wait, and processBlock (submitblock / verifyblockcandidate).  *)
(***************************************************************************)
EXTENDS Integers, FiniteSets, Sequences, TLC

(* ------------------------------ bounds -------------------------------- *)

\* Concurrent RPC threads calling getblocktemplate.
NumCallers ==
    2

\* Block index entries that can become the active tip (0 is nullptr).
MaxBlock ==
    2

\* Cap on mempool.GetTransactionsUpdated().
MaxUpdates ==
    2

\* Latest instant at which a modelled long-poll call starts.
MaxStart ==
    1

\* Callers that send a longpollid in the long-poll specification.
NumWaiters ==
    1

\* Concurrent RPC threads calling submitblock / verifyblockcandidate.
NumSubmitters ==
    1

\* Distinct block hashes.
MaxHash ==
    2

\* Concurrent RPC threads calling generatetoaddress.
NumMiners ==
    2

\* Largest nGenerate a modelled generateBlocks call is given.
MaxGenerate ==
    2

\* Largest nMaxTries a modelled generateBlocks call is given.
MaxTries ==
    3

\* The inner loop's nonce bound (0x100000 in the source), scaled down so
\* that exhausting it takes two failed tests.
nInnerLoopCount ==
    2

\* Most blocks in a chain the hash-rate estimator is run on.
MaxChain ==
    4

\* Largest block time and largest work of one block on those chains.
MaxBlockTime ==
    2

MaxBlockProof ==
    2

\* Params().GetConsensus().DifficultyAdjustmentInterval() (2016 blocks on
\* the main network), scaled down to the modelled chains.
DifficultyAdjustmentInterval ==
    2

\* Most transactions in a served template, the coinbase included, and the
\* largest fee of one.
MaxTx ==
    4

MaxFee ==
    2

(* ------------------------- program constants -------------------------- *)

\* GetTime() - nStart > 5
TemplateBudget ==
    5

\* boost::posix_time::minutes(1), in seconds
LongPollFirstTimeout ==
    60

\* boost::posix_time::seconds(10)
LongPollNextTimeout ==
    10

Callers ==
    1..NumCallers

Waiters ==
    1..NumWaiters

Submitters ==
    1..NumSubmitters

Miners ==
    1..NumMiners

Hashes ==
    1..MaxHash

Blocks ==
    1..MaxBlock

Counters ==
    0..MaxUpdates

\* The clock is sampled around the instants the code compares it with: the
\* start of a call, the template budget and the long-poll deadlines.
Instants ==
    { s + d : s \in 0..MaxStart,
              d \in { 0, TemplateBudget, TemplateBudget + 1,
                      LongPollFirstTimeout - 1, LongPollFirstTimeout,
                      LongPollFirstTimeout + LongPollNextTimeout - 1,
                      LongPollFirstTimeout + LongPollNextTimeout } }

\* nullptr (a CBlockIndex*)
Null ==
    0

\* An empty std::unique_ptr<CBlockTemplate>; a held template is << t >>.
NoTemplate ==
    << >>

VARIABLES
    \* collaborators
    tip,                        \* chainActive.Tip()
    mempoolUpdated,             \* mempool.GetTransactionsUpdated()
    frozenAt,                   \* mempool.GetFrozenTxnUpdatedAt()
    now,                        \* GetTime() / boost::get_system_time()
    rpcRunning,                 \* IsRPCRunning()
    miningFactory,              \* mining::g_miningFactory != nullptr
    \* function-local statics of getblocktemplate
    nTransactionsUpdatedLast,
    pindexPrev,
    nStart,
    pblocktemplate,
    localMutex,                 \* 0 or the caller holding it
    lastAttempt,                \* how the latest rebuild attempt ended
    \* per-call locals
    pc,
    hashWatchedChain,
    nTransactionsUpdatedLastLP,
    checktxtime,
    notified,                   \* callers with a pending cvBlockChange signal
    node,                       \* what the connectivity / IBD checks would find
    csBestBlock,                \* 0 or the caller holding the wait lock
    hist,                       \* per-call history: how the call got here
    \* processBlock
    mapBlockIndex,              \* status of each block hash in the index
    registered,                 \* calls whose collector is registered
    sc,                         \* submitblock_StateCatcher of each call
    spc,                        \* where each processBlock call is
    sub,                        \* locals of each processBlock call
    \* generateBlocks / IncrementExtraNonce
    hashPrevBlock,              \* function-local static of IncrementExtraNonce
    gpc,                        \* where each generateBlocks call is
    gl,                         \* locals of each generateBlocks call
    \* what the last step did, for stating the claims
    ev

gbtVars ==
    << tip, mempoolUpdated, frozenAt, now, rpcRunning, miningFactory,
       nTransactionsUpdatedLast, pindexPrev, nStart, pblocktemplate,
       localMutex, lastAttempt, pc, hashWatchedChain,
       nTransactionsUpdatedLastLP, checktxtime, notified, hist >>

subVars ==
    << mapBlockIndex, registered, sc, spc, sub >>

genVars ==
    << hashPrevBlock, gpc, gl >>

lpVars ==
    << node, csBestBlock >>

vars ==
    << gbtVars, subVars, genVars, lpVars, ev >>

NoEv ==
    [kind |-> "none"]

(* ------------------------------ helpers ------------------------------- *)

\* CBlockIndex::GetBlockHash(): one hash per block index entry.
GetBlockHash(b) ==
    << "hash", b >>

\* CBlockIndex::GetHeight(): blocks 1 and 2 compete at height 1, 3 and 4 at 2.
GetHeight(b) ==
    (b + 1) \div 2

\* The longpollid written in the response and parsed back by a later call:
\* 64 hex characters of the tip hash followed by the decimal counter.
LongPollId(b, n) ==
    [hash |-> GetBlockHash(b), counter |-> n]

(* ------------------- getblocktemplate: template cache ------------------ *)

\* The budget test off by one: a rebuild already at exactly five seconds.
IsStale_BudgetInclusive(cached, t, upd, last, time, start, frozen) ==
    \/ cached # t
    \/ /\ upd # last
       /\ \/ time - start >= TemplateBudget
          \/ last < frozen

\* The tip comparison left out: only the mempool makes the cache stale.
IsStale_TipIgnored(cached, t, upd, last, time, start, frozen) ==
    /\ upd # last
    /\ \/ time - start > TemplateBudget
       \/ last < frozen

\* Line 653-655: the condition under which the cached template is rebuilt.
IsStale(cached, t, upd, last, time, start, frozen) ==
    \/ cached # t
    \/ /\ upd # last
       /\ \/ time - start > TemplateBudget
          \/ last < frozen

\* The cached tip left as it was when a rebuild starts.
ClearedPrev_Kept ==
    pindexPrev

\* Line 658: pindexPrev = nullptr, before anything can fail.
ClearedPrev ==
    Null

\* No mutual exclusion: every caller gets in.
MutexFree_Unguarded ==
    TRUE

\* std::lock_guard lock{ localMutex }: the mutex can be taken.
MutexFree ==
    localMutex = 0

\* LOCK(cs_main) is held by a caller from line 649 to 674; a rebuild is the
\* only part of that section that spans more than one step.
CsMainFree ==
    \A c \in Callers : pc[c] # "build"

\* The assembler's CreateNewBlock(scriptDummy, pindexPrev) on success: a
\* template on the active tip, reported through the out-parameter.
CreateNewBlock(t) ==
    << [prev |-> t, nTime |-> now, nNonce |-> 0] >>

\* The cached block handed out as it was built.
UpdateTime_Untouched(tmpl) ==
    tmpl

\* mining::UpdateTime(pblock, config, pindexPrev); pblock->nNonce = 0;
UpdateTime(tmpl) ==
    << [tmpl[1] EXCEPT !.nTime = now, !.nNonce = 0] >>

\* Lines 703-772: the fields of the response the claims are about.
Response(tmpl, cached, t, last) ==
    [ previousblockhash |-> GetBlockHash(tmpl[1].prev),
      longpollid        |-> LongPollId(t, last),
      height            |-> GetHeight(cached) + 1,
      curtime           |-> tmpl[1].nTime,
      cachedTip         |-> cached,
      tipRead           |-> t ]

\* What the staleness check read (lines 651-655).
Observed ==
    [ cached |-> pindexPrev, tip |-> tip, upd |-> mempoolUpdated,
      last |-> nTransactionsUpdatedLast, time |-> now, start |-> nStart,
      frozen |-> frozenAt, factory |-> miningFactory ]

NoHist ==
    [ inflight |-> FALSE, woke |-> "none", start |-> 0, timeouts |-> 0,
      tipSeen |-> GetBlockHash(Null), updSeen |-> 0,
      reissue |-> FALSE, rebuilt |-> FALSE, polled |-> FALSE,
      hash |-> 0, hashPrevBlock |-> GetBlockHash(Null) ]

LocalsReset(c) ==
    /\ hashWatchedChain' = [hashWatchedChain EXCEPT ![c] = GetBlockHash(Null)]
    /\ nTransactionsUpdatedLastLP' = [nTransactionsUpdatedLastLP EXCEPT ![c] = 0]
    /\ checktxtime' = [checktxtime EXCEPT ![c] = 0]
    /\ notified' = notified \ {c}
    /\ hist' = [hist EXCEPT ![c] = NoHist]

\* Lines 638-655 and 676-786 when the check finds the cache fresh: the cached
\* template is served. Line 677 dereferences pblocktemplate unchecked.
ServeCached(c) ==
    /\ pc[c] = "lock"
    /\ MutexFree
    /\ ~IsStale(pindexPrev, tip, mempoolUpdated, nTransactionsUpdatedLast,
                now, nStart, frozenAt)
    /\ IF pblocktemplate = NoTemplate
         THEN /\ pblocktemplate' = pblocktemplate
              /\ ev' = [ kind |-> "null-deref", caller |-> c,
                         outcome |-> "cached", obs |-> Observed,
                         inflight |-> hist[c].inflight,
                         prevAttempt |-> lastAttempt ]
         ELSE /\ pblocktemplate' = UpdateTime(pblocktemplate)
              /\ ev' = [ kind |-> "decide", caller |-> c,
                         outcome |-> "cached", obs |-> Observed,
                         inflight |-> hist[c].inflight,
                         prevAttempt |-> lastAttempt,
                         before |-> pblocktemplate,
                         reissue |-> hist[c].reissue,
                         polled |-> hist[c].polled,
                         rebuilt |-> hist[c].rebuilt,
                         resp |-> Response(pblocktemplate', pindexPrev, tip,
                                           nTransactionsUpdatedLast) ]
    /\ pc' = [pc EXCEPT ![c] = "idle"]
    /\ LocalsReset(c)
    /\ UNCHANGED << tip, mempoolUpdated, frozenAt, now, rpcRunning,
                    miningFactory, nTransactionsUpdatedLast, pindexPrev,
                    nStart, localMutex >>
    /\ UNCHANGED subVars
    /\ UNCHANGED genVars
    /\ UNCHANGED lastAttempt
    /\ UNCHANGED lpVars

\* Lines 638-667 when the check finds the cache stale: the tracking state is
\* reset, and the call goes on to the assembler or fails for want of one.
StartRebuild(c) ==
    /\ pc[c] = "lock"
    /\ MutexFree
    /\ IsStale(pindexPrev, tip, mempoolUpdated, nTransactionsUpdatedLast,
               now, nStart, frozenAt)
    /\ pindexPrev' = ClearedPrev
    /\ nTransactionsUpdatedLast' = mempoolUpdated
    /\ nStart' = now
    /\ IF miningFactory
         THEN /\ localMutex' = c
              /\ pc' = [pc EXCEPT ![c] = "build"]
              /\ lastAttempt' = lastAttempt
              /\ ev' = [ kind |-> "decide", caller |-> c, outcome |-> "build",
                         obs |-> Observed, inflight |-> hist[c].inflight,
                         prevAttempt |-> lastAttempt ]
              /\ UNCHANGED << hashWatchedChain, nTransactionsUpdatedLastLP,
                              checktxtime, notified, hist >>
         ELSE /\ localMutex' = localMutex
              /\ pc' = [pc EXCEPT ![c] = "idle"]
              /\ lastAttempt' = "no-factory"
              /\ ev' = [ kind |-> "decide", caller |-> c,
                         outcome |-> "no-factory",
                         obs |-> Observed, inflight |-> hist[c].inflight,
                         prevAttempt |-> lastAttempt ]
              /\ LocalsReset(c)
    /\ UNCHANGED << tip, mempoolUpdated, frozenAt, now, rpcRunning,
                    miningFactory, pblocktemplate >>
    /\ UNCHANGED subVars
    /\ UNCHANGED genVars
    /\ UNCHANGED lpVars

\* Lines 669-786: the assembler returns a template, which is served.
BuildDone(c) ==
    /\ pc[c] = "build"
    /\ pindexPrev' = tip
    /\ lastAttempt' = "ok"
    /\ pblocktemplate' = UpdateTime(CreateNewBlock(tip))
    /\ ev' = [ kind |-> "built", caller |-> c, polled |-> hist[c].polled,
               resp |-> Response(pblocktemplate', pindexPrev', tip,
                                 nTransactionsUpdatedLast) ]
    /\ localMutex' = 0
    /\ pc' = [pc EXCEPT ![c] = "idle"]
    /\ hashWatchedChain' = [hashWatchedChain EXCEPT ![c] = GetBlockHash(Null)]
    /\ nTransactionsUpdatedLastLP' = [nTransactionsUpdatedLastLP EXCEPT ![c] = 0]
    /\ checktxtime' = [checktxtime EXCEPT ![c] = 0]
    /\ notified' = notified \ {c}
    /\ hist' = [o \in Callers |->
                   IF o = c THEN NoHist
                   ELSE [hist[o] EXCEPT !.rebuilt = hist[o].reissue]]
    /\ UNCHANGED << tip, mempoolUpdated, frozenAt, now, rpcRunning,
                    miningFactory, nTransactionsUpdatedLast, nStart >>
    /\ UNCHANGED subVars
    /\ UNCHANGED genVars
    /\ UNCHANGED lpVars

\* Lines 669-672: the assembler returns no template; "Out of memory".
BuildFailed(c) ==
    /\ pc[c] = "build"
    /\ pblocktemplate' = NoTemplate
    /\ lastAttempt' = "no-template"
    /\ ev' = [ kind |-> "build-failed", caller |-> c ]
    /\ localMutex' = 0
    /\ pc' = [pc EXCEPT ![c] = "idle"]
    /\ LocalsReset(c)
    /\ UNCHANGED << tip, mempoolUpdated, frozenAt, now, rpcRunning,
                    miningFactory, nTransactionsUpdatedLast, pindexPrev,
                    nStart >>
    /\ UNCHANGED subVars
    /\ UNCHANGED genVars
    /\ UNCHANGED lpVars

(* -------------------- getblocktemplate: entry, long poll --------------- *)

\* Lines 576-591: what the connectivity and initial-download checks find.
NodeStates ==
    { "ready", "p2p-disabled", "not-connected", "initial-download" }

\* Lines 576-591: a request is refused before it reaches the cache.
EntryAllowed ==
    node = "ready"

RequestRefused(c) ==
    /\ pc[c] = "idle"
    /\ ~EntryAllowed
    /\ ev' = [ kind |-> "refused", caller |-> c, node |-> node ]
    /\ UNCHANGED gbtVars
    /\ UNCHANGED subVars
    /\ UNCHANGED genVars
    /\ UNCHANGED lpVars

\* Lines 572-595, 638: a template request without longpollid goes straight
\* to the cache mutex.
RequestTemplate(c) ==
    /\ pc[c] = "idle"
    /\ EntryAllowed
    /\ pc' = [pc EXCEPT ![c] = "lock"]
    /\ hist' = [hist EXCEPT ![c] = [NoHist EXCEPT !.inflight = ~CsMainFree]]
    /\ ev' = NoEv
    /\ UNCHANGED << tip, mempoolUpdated, frozenAt, now, rpcRunning,
                    miningFactory, nTransactionsUpdatedLast, pindexPrev,
                    nStart, pblocktemplate, localMutex, hashWatchedChain,
                    nTransactionsUpdatedLastLP, checktxtime, notified >>
    /\ UNCHANGED subVars
    /\ UNCHANGED genVars
    /\ UNCHANGED lastAttempt
    /\ UNCHANGED lpVars

\* Lines 595-616: a request with a longpollid. A string is split into the
\* watched hash and the baseline counter; anything else takes the current
\* tip and the cache's counter. The first deadline is a minute away.
EnterLongPoll(c, isStr, id, reissue) ==
    /\ pc[c] = "idle"
    /\ EntryAllowed
    /\ now <= MaxStart
    /\ csBestBlock = 0
    /\ hashWatchedChain' = [hashWatchedChain EXCEPT ![c] = id.hash]
    /\ nTransactionsUpdatedLastLP' =
           [nTransactionsUpdatedLastLP EXCEPT ![c] = id.counter]
    /\ checktxtime' = [checktxtime EXCEPT ![c] = now + LongPollFirstTimeout]
    /\ hist' = [hist EXCEPT ![c] = [NoHist EXCEPT !.woke = "entry",
                                                  !.start = now,
                                                  !.reissue = reissue,
                                                  !.polled = TRUE]]
    /\ csBestBlock' = c
    /\ pc' = [pc EXCEPT ![c] = "lp_check"]
    /\ ev' = [ kind |-> "lp-enter", caller |-> c, isStr |-> isStr,
               id |-> id, readsTracking |-> ~isStr,
               holder |-> localMutex, reissue |-> reissue ]
    /\ UNCHANGED << tip, mempoolUpdated, frozenAt, now, rpcRunning,
                    miningFactory, nTransactionsUpdatedLast, pindexPrev,
                    nStart, pblocktemplate, localMutex, notified >>
    /\ UNCHANGED subVars
    /\ UNCHANGED genVars
    /\ UNCHANGED lastAttempt
    /\ UNCHANGED node

RequestLongPoll(c) ==
    \E isStr \in BOOLEAN, b \in Blocks, n \in Counters :
        /\ ~isStr => (b = tip /\ n = nTransactionsUpdatedLast)
        /\ EnterLongPoll(c, isStr, LongPollId(b, n), FALSE)

\* Lines 595-616 with the longpollid of the response the caller has just
\* received (line 752) passed back as a string.
ReissueLongPoll(c) ==
    /\ ev.kind \in {"decide", "built"}
    /\ ev.caller = c
    /\ ev.kind = "decide" => ev.outcome = "cached"
    /\ EnterLongPoll(c, TRUE, ev.resp.longpollid, TRUE)

\* The tip looked at only once the deadline has passed.
KeepWaiting_TipAfterDeadline(c) ==
    /\ GetBlockHash(tip) = hashWatchedChain[c] \/ now < checktxtime[c]
    /\ rpcRunning

\* The tip looked at only after a wake that was not a timeout.
KeepWaiting_NoCheckAfterTimeout(c) ==
    /\ GetBlockHash(tip) = hashWatchedChain[c] \/ hist[c].woke = "timeout"
    /\ rpcRunning

\* Lines 619-620: the loop condition, evaluated holding csBestBlock.
KeepWaiting(c) ==
    /\ GetBlockHash(tip) = hashWatchedChain[c]
    /\ rpcRunning

LpCheck(c) ==
    /\ pc[c] = "lp_check"
    /\ pc' = [pc EXCEPT ![c] = IF KeepWaiting(c) THEN "lp_wait" ELSE "lp_post"]
    /\ hist' = [hist EXCEPT ![c].tipSeen = GetBlockHash(tip)]
    /\ ev' = [ kind |-> "lp-check", caller |-> c, woke |-> hist[c].woke,
               tipSeen |-> GetBlockHash(tip), watched |-> hashWatchedChain[c],
               running |-> rpcRunning, stay |-> KeepWaiting(c),
               time |-> now, deadline |-> checktxtime[c] ]
    /\ csBestBlock' = IF KeepWaiting(c) THEN 0 ELSE csBestBlock
    /\ UNCHANGED << tip, mempoolUpdated, frozenAt, now, rpcRunning,
                    miningFactory, nTransactionsUpdatedLast, pindexPrev,
                    nStart, pblocktemplate, localMutex, hashWatchedChain,
                    nTransactionsUpdatedLastLP, checktxtime, notified >>
    /\ UNCHANGED subVars
    /\ UNCHANGED genVars
    /\ UNCHANGED lastAttempt
    /\ UNCHANGED node

\* The deadline moved on at every wake, signalled or timed out.
NextDeadline_EveryWake(c, timedOut) ==
    checktxtime[c] + LongPollNextTimeout

\* Line 627 (after a timeout) or no change (after a signalled wake): the
\* deadline of the next timed_wait.
NextDeadline(c, timedOut) ==
    IF timedOut THEN checktxtime[c] + LongPollNextTimeout ELSE checktxtime[c]

\* Line 621: timed_wait returns true, woken by cvBlockChange or spuriously.
LpWake(c) ==
    /\ pc[c] = "lp_wait"
    /\ csBestBlock = 0
    /\ csBestBlock' = c
    /\ pc' = [pc EXCEPT ![c] = "lp_check"]
    /\ hist' = [hist EXCEPT ![c].woke =
                   IF c \in notified THEN "signal" ELSE "spurious"]
    /\ notified' = notified \ {c}
    /\ checktxtime' = [checktxtime EXCEPT ![c] = NextDeadline(c, FALSE)]
    /\ ev' = NoEv
    /\ UNCHANGED << tip, mempoolUpdated, frozenAt, now, rpcRunning,
                    miningFactory, nTransactionsUpdatedLast, pindexPrev,
                    nStart, pblocktemplate, localMutex, hashWatchedChain,
                    nTransactionsUpdatedLastLP >>
    /\ UNCHANGED subVars
    /\ UNCHANGED genVars
    /\ UNCHANGED lastAttempt
    /\ UNCHANGED node

\* A timeout reported whenever the thread is scheduled, deadline or not.
DeadlinePassed_Always(c) ==
    TRUE

\* Line 621: timed_wait(lock, checktxtime) can report a timeout.
DeadlinePassed(c) ==
    now >= checktxtime[c]

\* Every timeout ends the wait, whatever the mempool counter.
MempoolChanged_Always(c) ==
    TRUE

\* Lines 623-624: the mempool counter differs from the baseline.
MempoolChanged(c) ==
    mempoolUpdated # nTransactionsUpdatedLastLP[c]

\* Lines 621-628: timed_wait returns false; the mempool counter is compared
\* with the baseline and the deadline moves on by ten seconds.
LpTimeout(c) ==
    /\ pc[c] = "lp_wait"
    /\ DeadlinePassed(c)
    /\ csBestBlock = 0
    /\ csBestBlock' = c
    /\ notified' = notified \ {c}
    /\ IF MempoolChanged(c)
         THEN /\ pc' = [pc EXCEPT ![c] = "lp_post"]
              /\ checktxtime' = checktxtime
              /\ hist' = [hist EXCEPT ![c].woke = "timeout",
                                      ![c].updSeen = mempoolUpdated]
         ELSE /\ pc' = [pc EXCEPT ![c] = "lp_check"]
              /\ checktxtime' = [checktxtime EXCEPT
                                    ![c] = NextDeadline(c, TRUE)]
              /\ hist' = [hist EXCEPT ![c].woke = "timeout",
                                      ![c].updSeen = mempoolUpdated,
                                      ![c].timeouts = @ + 1]
    /\ ev' = [ kind |-> "lp-timeout", caller |-> c, time |-> now,
               deadline |-> checktxtime[c], start |-> hist[c].start,
               upd |-> mempoolUpdated,
               baseline |-> nTransactionsUpdatedLastLP[c],
               signalled |-> (c \in notified),
               timeouts |-> hist[c].timeouts,
               exit |-> (pc'[c] = "lp_post") ]
    /\ UNCHANGED << tip, mempoolUpdated, frozenAt, now, rpcRunning,
                    miningFactory, nTransactionsUpdatedLast, pindexPrev,
                    nStart, pblocktemplate, localMutex, hashWatchedChain,
                    nTransactionsUpdatedLastLP >>
    /\ UNCHANGED subVars
    /\ UNCHANGED genVars
    /\ UNCHANGED lastAttempt
    /\ UNCHANGED node

\* The shutdown reported only when the tip did not change.
ShuttingDown_UnlessTipChanged(c) ==
    ~rpcRunning /\ GetBlockHash(tip) = hashWatchedChain[c]

\* Line 631: if (!IsRPCRunning()) throw "Shutting down".
ShuttingDown(c) ==
    ~rpcRunning

\* The wait lock kept by the caller into the cache section.
LockAfterWait_Held(c) ==
    c

\* Lines 618, 636: the unique_lock on csBestBlock lives in the block of the
\* long poll and is released where that block ends, thrown out of or not.
LockAfterWait(c) ==
    0

\* Lines 631-633: after the loop, a stopped service fails the request;
\* otherwise the call goes on to the cache mutex (line 639).
LpPost(c) ==
    /\ pc[c] = "lp_post"
    /\ csBestBlock' = LockAfterWait(c)
    /\ ev' = [ kind |-> "lp-end", caller |-> c, running |-> rpcRunning,
               outcome |-> IF ShuttingDown(c) THEN "shutting-down"
                           ELSE "returned",
               woke |-> hist[c].woke, tipSeen |-> hist[c].tipSeen,
               updSeen |-> hist[c].updSeen,
               watched |-> hashWatchedChain[c],
               baseline |-> nTransactionsUpdatedLastLP[c],
               tipNow |-> GetBlockHash(tip), updNow |-> mempoolUpdated,
               time |-> now, start |-> hist[c].start,
               deadline |-> checktxtime[c] ]
    /\ pc' = [pc EXCEPT ![c] = IF ShuttingDown(c) THEN "idle" ELSE "lock"]
    /\ hashWatchedChain' = [hashWatchedChain EXCEPT ![c] = GetBlockHash(Null)]
    /\ nTransactionsUpdatedLastLP' = [nTransactionsUpdatedLastLP EXCEPT ![c] = 0]
    /\ checktxtime' = [checktxtime EXCEPT ![c] = 0]
    /\ notified' = notified \ {c}
    /\ hist' = [hist EXCEPT ![c] =
                   [NoHist EXCEPT !.inflight = ~ShuttingDown(c) /\ ~CsMainFree,
                                  !.reissue = hist[c].reissue,
                                  !.polled = hist[c].polled,
                                  !.rebuilt = hist[c].rebuilt]]
    /\ UNCHANGED << tip, mempoolUpdated, frozenAt, now, rpcRunning,
                    miningFactory, nTransactionsUpdatedLast, pindexPrev,
                    nStart, pblocktemplate, localMutex >>
    /\ UNCHANGED subVars
    /\ UNCHANGED genVars
    /\ UNCHANGED lastAttempt
    /\ UNCHANGED node

(* ---------------------------- collaborators ---------------------------- *)

\* The active chain gets a new tip (under cs_main); cvBlockChange is
\* signalled by the component that advanced it, or the signal is missed.
TipChange ==
    /\ CsMainFree
    /\ \E b \in Blocks \ {tip}, signal \in BOOLEAN :
          /\ tip' = b
          /\ notified' = IF signal
                           THEN notified \cup {c \in Callers : pc[c] = "lp_wait"}
                           ELSE notified
    /\ ev' = NoEv
    /\ UNCHANGED << mempoolUpdated, frozenAt, now, rpcRunning, miningFactory,
                    nTransactionsUpdatedLast, pindexPrev, nStart,
                    pblocktemplate, localMutex, pc, hashWatchedChain,
                    nTransactionsUpdatedLastLP, checktxtime, hist >>
    /\ UNCHANGED subVars
    /\ UNCHANGED genVars
    /\ UNCHANGED lastAttempt
    /\ UNCHANGED lpVars

\* The active chain grows: the tip moves to a block it never was at before,
\* signalled or not.
TipAdvance ==
    /\ CsMainFree
    /\ \E b \in Blocks, signal \in BOOLEAN :
          /\ b > tip
          /\ tip' = b
          /\ notified' = IF signal
                           THEN notified \cup {c \in Callers : pc[c] = "lp_wait"}
                           ELSE notified
    /\ ev' = NoEv
    /\ UNCHANGED << mempoolUpdated, frozenAt, now, rpcRunning, miningFactory,
                    nTransactionsUpdatedLast, pindexPrev, nStart,
                    pblocktemplate, localMutex, pc, hashWatchedChain,
                    nTransactionsUpdatedLastLP, checktxtime, hist >>
    /\ UNCHANGED subVars
    /\ UNCHANGED genVars
    /\ UNCHANGED lastAttempt
    /\ UNCHANGED lpVars

\* The node's condition changes: the initial download completes (and does
\* not start again), peers connect and disconnect, the connection manager
\* is torn down.
NodeChange ==
    /\ \E n \in NodeStates \ {node} :
          /\ \/ node = "initial-download" /\ n \in {"ready", "not-connected"}
             \/ node = "ready" /\ n \in {"not-connected", "p2p-disabled"}
             \/ node = "not-connected" /\ n \in {"ready", "p2p-disabled"}
          /\ node' = n
    /\ ev' = NoEv
    /\ UNCHANGED gbtVars
    /\ UNCHANGED subVars
    /\ UNCHANGED genVars
    /\ UNCHANGED csBestBlock

\* The mempool's update counter advances.
MempoolUpdate ==
    /\ mempoolUpdated < MaxUpdates
    /\ mempoolUpdated' = mempoolUpdated + 1
    /\ ev' = NoEv
    /\ UNCHANGED << tip, frozenAt, now, rpcRunning, miningFactory,
                    nTransactionsUpdatedLast, pindexPrev, nStart,
                    pblocktemplate, localMutex, pc, hashWatchedChain,
                    nTransactionsUpdatedLastLP, checktxtime, notified, hist >>
    /\ UNCHANGED subVars
    /\ UNCHANGED genVars
    /\ UNCHANGED lastAttempt
    /\ UNCHANGED lpVars

\* The mempool's frozen-transactions watermark advances.
FrozenUpdate ==
    /\ \E n \in Counters : n > frozenAt /\ frozenAt' = n
    /\ ev' = NoEv
    /\ UNCHANGED << tip, mempoolUpdated, now, rpcRunning, miningFactory,
                    nTransactionsUpdatedLast, pindexPrev, nStart,
                    pblocktemplate, localMutex, pc, hashWatchedChain,
                    nTransactionsUpdatedLastLP, checktxtime, notified, hist >>
    /\ UNCHANGED subVars
    /\ UNCHANGED genVars
    /\ UNCHANGED lastAttempt
    /\ UNCHANGED lpVars

\* The clock advances to a later sampled instant, up to a horizon.
TickTo(horizon) ==
    /\ \E t \in Instants : t > now /\ t <= horizon /\ now' = t
    /\ ev' = NoEv
    /\ UNCHANGED << tip, mempoolUpdated, frozenAt, rpcRunning, miningFactory,
                    nTransactionsUpdatedLast, pindexPrev, nStart,
                    pblocktemplate, localMutex, pc, hashWatchedChain,
                    nTransactionsUpdatedLastLP, checktxtime, notified, hist >>
    /\ UNCHANGED subVars
    /\ UNCHANGED genVars
    /\ UNCHANGED lastAttempt
    /\ UNCHANGED lpVars

\* The RPC server stops: IsRPCRunning() turns false and stays false.
Shutdown ==
    /\ rpcRunning
    /\ rpcRunning' = FALSE
    /\ ev' = NoEv
    /\ UNCHANGED << tip, mempoolUpdated, frozenAt, now, miningFactory,
                    nTransactionsUpdatedLast, pindexPrev, nStart,
                    pblocktemplate, localMutex, pc, hashWatchedChain,
                    nTransactionsUpdatedLastLP, checktxtime, notified, hist >>
    /\ UNCHANGED subVars
    /\ UNCHANGED genVars
    /\ UNCHANGED lastAttempt
    /\ UNCHANGED lpVars

\* mining::g_miningFactory is set up or torn down.
FactoryChange ==
    /\ miningFactory' = ~miningFactory
    /\ ev' = NoEv
    /\ UNCHANGED << tip, mempoolUpdated, frozenAt, now, rpcRunning,
                    nTransactionsUpdatedLast, pindexPrev, nStart,
                    pblocktemplate, localMutex, pc, hashWatchedChain,
                    nTransactionsUpdatedLastLP, checktxtime, notified, hist >>
    /\ UNCHANGED subVars
    /\ UNCHANGED genVars
    /\ UNCHANGED lastAttempt
    /\ UNCHANGED lpVars

(* ----------------------------- processBlock --------------------------- *)

\* What the block index holds for a hash: nothing, an entry not yet fully
\* validated, one valid up to BlockValidity::SCRIPTS, or one marked invalid.
Statuses ==
    { "absent", "header", "valid", "invalid" }

\* CValidationState: its mode and reject reason.
ValidationStates ==
    { [mode |-> "valid", reason |-> ""] } \cup
    { [mode |-> m, reason |-> r] : m \in {"invalid", "error"},
                                   r \in {"", "bad-blk"} }

\* submitblock_StateCatcher(hashIn): hash(hashIn), found(false), state()
StateCatcher(h) ==
    [hash |-> h, found |-> FALSE, state |-> [mode |-> "valid", reason |-> ""]]

NoSub ==
    [ hash |-> 0, status |-> "absent", fBlockPresent |-> FALSE,
      fAccepted |-> FALSE, calls |-> 0, foundAtReturn |-> FALSE ]

\* Line 827: mapBlockIndex.Get(hash) finds an entry.
IsPresent(st) ==
    st # "absent"

\* The validity test never succeeding (a level no entry reaches).
IsValidScripts_Never(st) ==
    FALSE

\* Line 828: pindex->IsValid(BlockValidity::SCRIPTS)
IsValidScripts(st) ==
    st = "valid"

\* Line 831: pindex->getStatus().isInvalid()
IsInvalid(st) ==
    st = "invalid"

\* An engine-internal error handed back as a rejection string.
BIP22ValidationResult_ErrorReturned(state) ==
    IF state.mode = "valid"
      THEN [throws |-> FALSE, value |-> "null"]
      ELSE [throws |-> FALSE,
            value |-> IF state.reason = "" THEN "rejected" ELSE state.reason]

\* Lines 343-363: a conclusive state as a BIP22 result, or a thrown error.
BIP22ValidationResult(state) ==
    IF state.mode = "valid"
      THEN [throws |-> FALSE, value |-> "null"]
      ELSE IF state.mode = "error"
        THEN [throws |-> TRUE, value |-> state.reason]
        ELSE IF state.mode = "invalid"
          THEN [throws |-> FALSE,
                value |-> IF state.reason = "" THEN "rejected"
                          ELSE state.reason]
          ELSE [throws |-> FALSE, value |-> "valid?"]

\* An already-present block reported by the operation's boolean alone.
Classify_PresentByAccepted(present, accepted, found, state) ==
    IF present
      THEN IF accepted
             THEN [throws |-> FALSE, value |-> "duplicate-inconclusive"]
             ELSE [throws |-> FALSE, value |-> "duplicate"]
      ELSE IF ~found
             THEN [throws |-> FALSE, value |-> "inconclusive"]
             ELSE BIP22ValidationResult(state)

\* A new block's result taken from the operation's boolean when the
\* collector did not fire.
Classify_AcceptedDecides(present, accepted, found, state) ==
    IF present
      THEN IF accepted /\ ~found
             THEN [throws |-> FALSE, value |-> "duplicate-inconclusive"]
             ELSE [throws |-> FALSE, value |-> "duplicate"]
      ELSE IF ~found
             THEN [throws |-> FALSE,
                   value |-> IF accepted THEN "null" ELSE "inconclusive"]
             ELSE BIP22ValidationResult(state)

\* Lines 843-854: the result once the collector is unregistered.
Classify(present, accepted, found, state) ==
    IF present
      THEN IF accepted /\ ~found
             THEN [throws |-> FALSE, value |-> "duplicate-inconclusive"]
             ELSE [throws |-> FALSE, value |-> "duplicate"]
      ELSE IF ~found
             THEN [throws |-> FALSE, value |-> "inconclusive"]
             ELSE BIP22ValidationResult(state)

\* Lines 815-837: the checks made before anything is registered. "go" means
\* the call proceeds to validation.
EarlyResult(coinbase, p2sh, st) ==
    IF ~coinbase
      THEN [throws |-> TRUE, value |-> "Block does not start with a coinbase"]
      ELSE IF p2sh
        THEN [throws |-> TRUE, value |-> "bad-txns-vout-p2sh"]
        ELSE IF IsPresent(st) /\ IsValidScripts(st)
          THEN [throws |-> FALSE, value |-> "duplicate"]
          ELSE IF IsPresent(st) /\ IsInvalid(st)
            THEN [throws |-> FALSE, value |-> "duplicate-invalid"]
            ELSE [throws |-> FALSE, value |-> "go"]

\* Lines 815-841: processBlock up to the call of performBlockOperation: the
\* coinbase checks, the duplicate lookup, and the collector's registration.
ProcessBlockEnter(s) ==
    /\ spc[s] = "idle"
    /\ \E h \in Hashes, coinbase \in BOOLEAN, p2sh \in BOOLEAN :
          LET st    == mapBlockIndex[h]
              early == EarlyResult(coinbase, p2sh, st)
          IN  IF early.value = "go"
                THEN /\ sub' = [sub EXCEPT ![s] =
                                   [NoSub EXCEPT !.hash = h, !.status = st,
                                                 !.fBlockPresent = IsPresent(st),
                                                 !.calls = 1]]
                     /\ sc' = [sc EXCEPT ![s] = StateCatcher(h)]
                     /\ registered' = registered \cup {s}
                     /\ spc' = [spc EXCEPT ![s] = "in-op"]
                     /\ ev' = NoEv
                ELSE /\ ev' = [ kind |-> "submit", caller |-> s, hash |-> h,
                                coinbase |-> coinbase, p2sh |-> p2sh,
                                status |-> st, early |-> TRUE,
                                throws |-> early.throws,
                                value |-> early.value, calls |-> 0,
                                wasRegistered |-> FALSE,
                                stillRegistered |-> s \in registered ]
                     /\ UNCHANGED subVars
    /\ UNCHANGED lastAttempt
    /\ mapBlockIndex' = mapBlockIndex
    /\ UNCHANGED gbtVars
    /\ UNCHANGED genVars
    /\ UNCHANGED lpVars

\* A collector that keeps the state of its first matching notification.
OnBlockChecked_FirstWins(catcher, h, state) ==
    IF catcher.hash # h \/ catcher.found
      THEN catcher
      ELSE [catcher EXCEPT !.found = TRUE, !.state = state]

\* Lines 798-806: the collector's handler for one notification.
OnBlockChecked(catcher, h, state) ==
    IF catcher.hash # h
      THEN catcher
      ELSE [catcher EXCEPT !.found = TRUE, !.state = state]

\* CValidationInterface::BlockChecked, lines 798-806, delivered by the
\* validation engine to every registered collector.
BlockChecked(h, state) ==
    /\ registered # {}
    /\ sc' = [s \in Submitters |->
                 IF s \in registered
                   THEN OnBlockChecked(sc[s], h, state)
                   ELSE sc[s]]
    /\ ev' = [ kind |-> "block-checked", hash |-> h, state |-> state,
               to |-> registered, before |-> sc, after |-> sc' ]
    /\ UNCHANGED << mapBlockIndex, registered, spc, sub >>
    /\ UNCHANGED gbtVars
    /\ UNCHANGED genVars
    /\ UNCHANGED lpVars

\* The validation engine notifies the registered collectors about a block.
EngineNotifies ==
    \E h \in Hashes, state \in ValidationStates : BlockChecked(h, state)

\* Line 841: performBlockOperation returns its boolean.
OperationReturns(s) ==
    /\ spc[s] = "in-op"
    /\ \E accepted \in BOOLEAN :
          sub' = [sub EXCEPT ![s].fAccepted = accepted,
                             ![s].foundAtReturn = sc[s].found]
    /\ spc' = [spc EXCEPT ![s] = "returned"]
    /\ ev' = NoEv
    /\ UNCHANGED << mapBlockIndex, registered, sc >>
    /\ UNCHANGED gbtVars
    /\ UNCHANGED genVars
    /\ UNCHANGED lpVars

\* Line 841: performBlockOperation raises; the exception leaves
\* processBlock from inside the call, past line 842, and ends the request.
OperationRaises(s) ==
    /\ spc[s] = "in-op"
    /\ UNCHANGED << mapBlockIndex, registered, sc >>
    /\ spc' = [spc EXCEPT ![s] = "raised"]
    /\ sub' = [sub EXCEPT ![s] = NoSub]
    /\ ev' = [ kind |-> "submit-raised", caller |-> s,
               hash |-> sub[s].hash, calls |-> sub[s].calls,
               wasRegistered |-> s \in registered,
               stillRegistered |-> s \in registered' ]
    /\ UNCHANGED gbtVars
    /\ UNCHANGED genVars
    /\ UNCHANGED lpVars

\* Lines 842-855: the collector is unregistered and the outcome classified.
ProcessBlockFinish(s) ==
    /\ spc[s] = "returned"
    /\ registered' = registered \ {s}
    /\ LET r == Classify(sub[s].fBlockPresent, sub[s].fAccepted,
                         sc[s].found, sc[s].state)
       IN  ev' = [ kind |-> "submit", caller |-> s, hash |-> sub[s].hash,
                   coinbase |-> TRUE, p2sh |-> FALSE,
                   status |-> sub[s].status,
                   early |-> FALSE, throws |-> r.throws, value |-> r.value,
                   present |-> sub[s].fBlockPresent,
                   accepted |-> sub[s].fAccepted,
                   found |-> sc[s].found, state |-> sc[s].state,
                   foundAtReturn |-> sub[s].foundAtReturn,
                   calls |-> sub[s].calls, wasRegistered |-> TRUE,
                   stillRegistered |-> s \in registered' ]
    /\ spc' = [spc EXCEPT ![s] = "idle"]
    /\ sub' = [sub EXCEPT ![s] = NoSub]
    /\ sc' = [sc EXCEPT ![s] = StateCatcher(0)]
    /\ mapBlockIndex' = mapBlockIndex
    /\ UNCHANGED gbtVars
    /\ UNCHANGED genVars
    /\ UNCHANGED lpVars

\* The block index changes underneath: a header or block arrives, or its
\* validation completes.
IndexChange ==
    /\ \E h \in Hashes, st \in Statuses :
          /\ \/ mapBlockIndex[h] = "absent" /\ st = "header"
             \/ mapBlockIndex[h] = "header" /\ st \in {"valid", "invalid"}
          /\ mapBlockIndex' = [mapBlockIndex EXCEPT ![h] = st]
    /\ ev' = NoEv
    /\ UNCHANGED << registered, sc, spc, sub >>
    /\ UNCHANGED gbtVars
    /\ UNCHANGED genVars
    /\ UNCHANGED lpVars

(* --------------------- getblocktemplate: proposal mode ----------------- *)

\* Lines 510-524: the answer for a hash the block index knows.
ProposalKnown(st) ==
    IF IsValidScripts(st) THEN "duplicate"
    ELSE IF IsInvalid(st) THEN "duplicate-invalid"
    ELSE "duplicate-inconclusive"

\* Every unknown proposal taken to be built on the tip.
BuildsOnTip_Always(prev, t) ==
    TRUE

\* Line 532: block.hashPrevBlock against the tip read under cs_main.
BuildsOnTip(prev, t) ==
    prev = GetBlockHash(t)

\* What a proposal call leaves alone: the cache's statics and mutex, and the
\* caller's long-poll locals and the wait lock.
CacheAndWait(c) ==
    << pindexPrev, nStart, nTransactionsUpdatedLast, pblocktemplate,
       localMutex, hashWatchedChain[c], nTransactionsUpdatedLastLP[c],
       checktxtime[c], csBestBlock >>

\* Lines 493-524, 546-568: a proposal is decoded and its hash looked up in
\* the block index; a known hash is answered at once.
ProposalLookup(c) ==
    /\ pc[c] = "idle"
    /\ \E h \in Hashes, b \in Blocks \cup {Null} :
          IF IsPresent(mapBlockIndex[h])
            THEN /\ pc' = pc
                 /\ hist' = hist
                 /\ ev' = [ kind |-> "proposal", caller |-> c, hash |-> h,
                            status |-> mapBlockIndex[h],
                            prev |-> GetBlockHash(b),
                            tipRead |-> GetBlockHash(Null),
                            validated |-> FALSE,
                            state |-> [mode |-> "valid", reason |-> ""],
                            res |-> [throws |-> FALSE,
                                     value |-> ProposalKnown(mapBlockIndex[h])],
                            before |-> CacheAndWait(c) ]
            ELSE /\ pc' = [pc EXCEPT ![c] = "proposal"]
                 /\ hist' = [hist EXCEPT ![c] =
                                [NoHist EXCEPT !.hash = h,
                                               !.hashPrevBlock =
                                                   GetBlockHash(b)]]
                 /\ ev' = NoEv
    /\ UNCHANGED << tip, mempoolUpdated, frozenAt, now, rpcRunning,
                    miningFactory, nTransactionsUpdatedLast, pindexPrev,
                    nStart, pblocktemplate, localMutex, hashWatchedChain,
                    nTransactionsUpdatedLastLP, checktxtime, notified >>
    /\ UNCHANGED lastAttempt
    /\ UNCHANGED subVars
    /\ UNCHANGED genVars
    /\ UNCHANGED lpVars

\* Lines 525-544, 546-568: under cs_main an unknown proposal is compared
\* with the tip and, built on it, handed to TestBlockValidity without the
\* proof-of-work check; the state comes back through BIP22ValidationResult.
ProposalValidate(c) ==
    /\ pc[c] = "proposal"
    /\ CsMainFree
    /\ \E state \in ValidationStates :
          LET onTip == BuildsOnTip(hist[c].hashPrevBlock, tip)
          IN  /\ ~onTip => state = [mode |-> "valid", reason |-> ""]
              /\ ev' = [ kind |-> "proposal", caller |-> c,
                         hash |-> hist[c].hash, status |-> "absent",
                         prev |-> hist[c].hashPrevBlock,
                         tipRead |-> GetBlockHash(tip),
                         validated |-> onTip,
                         state |-> state,
                         res |-> IF onTip THEN BIP22ValidationResult(state)
                                 ELSE [throws |-> FALSE,
                                       value |->
                                         "inconclusive-not-best-prevblk"],
                         before |-> CacheAndWait(c) ]
    /\ pc' = [pc EXCEPT ![c] = "idle"]
    /\ hist' = [hist EXCEPT ![c] = NoHist]
    /\ UNCHANGED << tip, mempoolUpdated, frozenAt, now, rpcRunning,
                    miningFactory, nTransactionsUpdatedLast, pindexPrev,
                    nStart, pblocktemplate, localMutex, hashWatchedChain,
                    nTransactionsUpdatedLastLP, checktxtime, notified >>
    /\ UNCHANGED lastAttempt
    /\ UNCHANGED subVars
    /\ UNCHANGED genVars
    /\ UNCHANGED lpVars

(* ----------------- generateBlocks / IncrementExtraNonce ---------------- *)

\* nGenerate and nMaxTries as given by callers.
GenerateCounts ==
    0..MaxGenerate

TryBudgets ==
    0..MaxTries

\* BlockMerkleRoot(block): determined by the transaction list, of which the
\* coinbase at index 0 is the part that varies here.
BlockMerkleRoot(coinbase) ==
    << "merkle", coinbase >>

\* The coinbase input script: height first, then the extra nonce.
CoinbaseScript(height, nExtraNonce) ==
    [height |-> height, extraNonce |-> nExtraNonce]

\* The block of a fresh template on tip t: nonce 0, the assembler's own
\* coinbase, and a merkle root matching it.
NewBlock(t) ==
    [ hashPrevBlock |-> GetBlockHash(t), nNonce |-> 0,
      coinbase |-> CoinbaseScript(0, 0),
      hashMerkleRoot |-> BlockMerkleRoot(CoinbaseScript(0, 0)) ]

\* Locals of a generateBlocks call before it starts, with its history:
\* tests and submitted count the proof-of-work tests and ProcessNewBlock
\* calls made, lastPrev/lastNonce are the call's previous IncrementExtraNonce
\* result, foreign and raced tell whether another call stored into
\* hashPrevBlock since then, or between this call's comparison and store.
NoGen ==
    [ nGenerate |-> 0, maxTries |-> 0, nMaxTries |-> 0, nHeight |-> 0,
      nExtraNonce |-> 0, pindexPrev |-> Null, pblock |-> NewBlock(Null),
      differs |-> FALSE, blockHashes |-> << >>, tests |-> 0,
      submitted |-> 0, lastPrev |-> GetBlockHash(Null), lastNonce |-> 0,
      foreign |-> FALSE, raced |-> FALSE ]

\* generateBlocks leaves, by return blockHashes or by a JSONRPCError.
GenerateExit(m, throws, value) ==
    /\ ev' = [ kind |-> "generate", miner |-> m, throws |-> throws,
               value |-> value, blockHashes |-> gl[m].blockHashes,
               nGenerate |-> gl[m].nGenerate, maxTries |-> gl[m].maxTries,
               nMaxTries |-> gl[m].nMaxTries, nHeight |-> gl[m].nHeight,
               tests |-> gl[m].tests, submitted |-> gl[m].submitted ]
    /\ gpc' = [gpc EXCEPT ![m] = "idle"]
    /\ gl' = [gl EXCEPT ![m] = NoGen]

\* Lines 142-155: entry, the factory check and the locals.
GenerateEnter(m, counts, budgets) ==
    /\ gpc[m] = "idle"
    /\ \E n \in counts, t \in budgets :
          IF ~miningFactory
            THEN /\ ev' = [ kind |-> "generate", miner |-> m, throws |-> TRUE,
                            value |-> "No mining factory available",
                            blockHashes |-> << >>, nGenerate |-> n,
                            maxTries |-> t, nMaxTries |-> t, nHeight |-> 0,
                            tests |-> 0, submitted |-> 0 ]
                 /\ UNCHANGED << gpc, gl >>
            ELSE /\ gl' = [gl EXCEPT ![m] =
                              [NoGen EXCEPT !.nGenerate = n, !.maxTries = t,
                                            !.nMaxTries = t]]
                 /\ gpc' = [gpc EXCEPT ![m] = "loop"]
                 /\ ev' = NoEv
    /\ UNCHANGED hashPrevBlock
    /\ UNCHANGED gbtVars
    /\ UNCHANGED subVars
    /\ UNCHANGED lpVars

\* Lines 164-171 and 219: the outer loop's test; a template is created on the
\* current tip, or creation fails, or the loop is over and the list returned.
\* nHeight is kept relative to nHeightStart.
GenerateLoop(m) ==
    /\ gpc[m] = "loop"
    /\ IF gl[m].nHeight < gl[m].nGenerate
         THEN \E created \in BOOLEAN :
                 IF created
                   THEN /\ gl' = [gl EXCEPT ![m].pblock = NewBlock(tip),
                                            ![m].pindexPrev = tip]
                        /\ gpc' = [gpc EXCEPT ![m] = "ien"]
                        /\ ev' = [ kind |-> "template", miner |-> m,
                                   nHeight |-> gl[m].nHeight,
                                   blockHashes |-> gl[m].blockHashes,
                                   nMaxTries |-> gl[m].nMaxTries ]
                   ELSE GenerateExit(m, TRUE, "Couldn't create new block")
         ELSE GenerateExit(m, FALSE, "blockHashes")
    /\ UNCHANGED hashPrevBlock
    /\ UNCHANGED gbtVars
    /\ UNCHANGED subVars
    /\ UNCHANGED lpVars

\* Line 45: the static is compared with the block's previous-block hash.
IenCompare(m) ==
    /\ gpc[m] = "ien"
    /\ gl' = [gl EXCEPT ![m].differs =
                 hashPrevBlock # gl[m].pblock.hashPrevBlock,
                        ![m].raced = FALSE]
    /\ gpc' = [gpc EXCEPT ![m] = "ien-store"]
    /\ ev' = NoEv
    /\ UNCHANGED hashPrevBlock
    /\ UNCHANGED gbtVars
    /\ UNCHANGED subVars
    /\ UNCHANGED lpVars

\* An extra nonce that is never reset.
NextExtraNonce_NoReset(differs, nExtraNonce) ==
    nExtraNonce + 1

\* Lines 45-49: reset on a different previous block, then increment.
NextExtraNonce(differs, nExtraNonce) ==
    (IF differs THEN 0 ELSE nExtraNonce) + 1

\* The header's merkle root left as the template had it.
UpdatedMerkleRoot_Stale(block, coinbase) ==
    block.hashMerkleRoot

\* Line 58: pblock->hashMerkleRoot = BlockMerkleRoot(*pblock)
UpdatedMerkleRoot(block, coinbase) ==
    BlockMerkleRoot(coinbase)

\* Lines 46-58: the static and the extra nonce are updated, the coinbase is
\* rebuilt with the height and the extra nonce, and the merkle root redone.
IenUpdate(m) ==
    /\ gpc[m] = "ien-store"
    /\ LET l        == gl[m]
           n        == NextExtraNonce(l.differs, l.nExtraNonce)
           coinbase == CoinbaseScript(GetHeight(l.pindexPrev) + 1, n)
           block    == [l.pblock EXCEPT
                          !.coinbase = coinbase,
                          !.hashMerkleRoot = UpdatedMerkleRoot(l.pblock, coinbase)]
       IN  /\ hashPrevBlock' = IF l.differs THEN l.pblock.hashPrevBlock
                               ELSE hashPrevBlock
           /\ gl' = [o \in Miners |->
                        IF o = m
                          THEN [l EXCEPT !.nExtraNonce = n, !.pblock = block,
                                         !.lastPrev = l.pblock.hashPrevBlock,
                                         !.lastNonce = n,
                                         !.foreign = l.raced /\ ~l.differs,
                                         !.raced = FALSE]
                          ELSE IF gpc[o] = "idle" \/ ~l.differs
                            THEN gl[o]
                            ELSE [gl[o] EXCEPT
                                    !.foreign = TRUE,
                                    !.raced = (gpc[o] = "ien-store")]]
           /\ ev' = [ kind |-> "ien", miner |-> m,
                      prev |-> l.pblock.hashPrevBlock,
                      stored |-> hashPrevBlock, differs |-> l.differs,
                      before |-> l.nExtraNonce, after |-> n,
                      lastPrev |-> l.lastPrev, lastNonce |-> l.lastNonce,
                      foreign |-> l.foreign, raced |-> l.raced,
                      block |-> block ]
    /\ gpc' = [gpc EXCEPT ![m] = "search"]
    /\ UNCHANGED gbtVars
    /\ UNCHANGED subVars
    /\ UNCHANGED lpVars

\* A budget charged for every test, successful or not.
BudgetAfterTest_EveryTest(nMaxTries, solved) ==
    nMaxTries - 1

\* Lines 177-180: --nMaxTries is in the loop body, which runs only when the
\* test failed.
BudgetAfterTest(nMaxTries, solved) ==
    IF solved THEN nMaxTries ELSE nMaxTries - 1

\* Lines 177-180: one evaluation of the inner loop's condition in which
\* CheckProofOfWork is reached; a failed test advances the nonce.
PowTest(m) ==
    /\ gpc[m] = "search"
    /\ gl[m].nMaxTries > 0
    /\ gl[m].pblock.nNonce < nInnerLoopCount
    /\ \E solved \in BOOLEAN :
          /\ gl' = [gl EXCEPT
                      ![m].tests = @ + 1,
                      ![m].nMaxTries = BudgetAfterTest(@, solved),
                      ![m].pblock.nNonce = IF solved THEN @ ELSE @ + 1]
          /\ gpc' = [gpc EXCEPT ![m] = IF solved THEN "solved" ELSE "search"]
          /\ ev' = [ kind |-> "pow", miner |-> m, solved |-> solved,
                     block |-> gl[m].pblock,
                     budgetBefore |-> gl[m].nMaxTries,
                     tests |-> gl[m].tests + 1,
                     maxTries |-> gl[m].maxTries ]
    /\ UNCHANGED hashPrevBlock
    /\ UNCHANGED gbtVars
    /\ UNCHANGED subVars
    /\ UNCHANGED lpVars

\* A spent budget that only ends the current template.
BudgetBreaks_Never(nMaxTries) ==
    FALSE

\* Line 182: if (nMaxTries == 0) break;
BudgetBreaks(nMaxTries) ==
    nMaxTries = 0

\* Lines 177-188: the inner loop ends without a test: the budget is spent
\* (break, and the list is returned) or the nonce reached the bound
\* (continue with a new template).
SearchEnds(m) ==
    /\ gpc[m] = "search"
    /\ ~(gl[m].nMaxTries > 0 /\ gl[m].pblock.nNonce < nInnerLoopCount)
    /\ IF BudgetBreaks(gl[m].nMaxTries)
         THEN GenerateExit(m, FALSE, "blockHashes")
         ELSE /\ gpc' = [gpc EXCEPT ![m] = "loop"]
              /\ ev' = [ kind |-> "exhausted", miner |-> m,
                         nHeight |-> gl[m].nHeight,
                         blockHashes |-> gl[m].blockHashes,
                         nMaxTries |-> gl[m].nMaxTries,
                         block |-> gl[m].pblock ]
              /\ UNCHANGED gl
    /\ UNCHANGED hashPrevBlock
    /\ UNCHANGED gbtVars
    /\ UNCHANGED subVars
    /\ UNCHANGED lpVars

\* A block counted as produced whatever ProcessNewBlock reported.
Produced_Regardless(accepted) ==
    TRUE

\* Lines 205-210: the block counts only if ProcessNewBlock returned true.
Produced(accepted) ==
    accepted

\* Lines 190-216: the solved block is copied, checked for a P2SH coinbase
\* output, handed to ProcessNewBlock, and on acceptance counted and its hash
\* recorded.
SubmitSolved(m) ==
    /\ gpc[m] = "solved"
    /\ \E p2sh \in BOOLEAN, accepted \in BOOLEAN :
          IF p2sh
            THEN GenerateExit(m, TRUE, "bad-txns-vout-p2sh")
            ELSE IF ~Produced(accepted)
              THEN /\ ev' = [ kind |-> "generate", miner |-> m,
                              throws |-> TRUE,
                              value |-> "ProcessNewBlock, block not accepted",
                              blockHashes |-> gl[m].blockHashes,
                              nGenerate |-> gl[m].nGenerate,
                              maxTries |-> gl[m].maxTries,
                              nMaxTries |-> gl[m].nMaxTries,
                              nHeight |-> gl[m].nHeight,
                              tests |-> gl[m].tests,
                              submitted |-> gl[m].submitted + 1 ]
                   /\ gpc' = [gpc EXCEPT ![m] = "idle"]
                   /\ gl' = [gl EXCEPT ![m] = NoGen]
              ELSE /\ gl' = [gl EXCEPT
                               ![m].submitted = @ + 1,
                               ![m].nHeight = @ + 1,
                               ![m].blockHashes =
                                   Append(@, << gl[m].pblock.hashPrevBlock,
                                                gl[m].pblock.coinbase,
                                                gl[m].pblock.nNonce >>)]
                   /\ gpc' = [gpc EXCEPT ![m] = "loop"]
                   /\ ev' = [ kind |-> "submitted", miner |-> m,
                              accepted |-> accepted,
                              block |-> gl[m].pblock,
                              nHeight |-> gl[m].nHeight,
                              blockHashes |-> gl[m].blockHashes,
                              after |-> gl'[m] ]
    /\ UNCHANGED hashPrevBlock
    /\ UNCHANGED gbtVars
    /\ UNCHANGED subVars
    /\ UNCHANGED lpVars

(* --------------------------- GetNetworkHashPS -------------------------- *)

\* The block times and per-block work the estimator's chains are made of.
BlockTimes ==
    0 .. MaxBlockTime

BlockProofs ==
    1 .. MaxBlockProof

\* chainActive as the estimator reads it: the block of height k is entry
\* k + 1, with its GetBlockTime() and the work it adds to nChainWork. The
\* empty chain has no tip.
Chains ==
    UNION { [1 .. n -> [time : BlockTimes, proof : BlockProofs]] :
            n \in 0 .. MaxChain }

\* The lookup and height arguments (both int; -1 is the RPC default height).
Lookups ==
    -1 .. MaxChain + 1

Heights ==
    -1 .. MaxChain

\* chainActive.Height(): -1 without a tip.
ChainHeight(chain) ==
    Len(chain) - 1

GetBlockTime(chain, h) ==
    chain[h + 1].time

RECURSIVE GetChainWork(_, _)
\* pb->GetChainWork(): the work of the block and of all its ancestors.
GetChainWork(chain, h) ==
    IF h < 0 THEN 0 ELSE chain[h + 1].proof + GetChainWork(chain, h - 1)

\* Lines 69-73: the tip, or the block at height when that is below the tip.
\* -1 stands for nullptr.
Anchor(chain, height) ==
    IF height >= 0 /\ height < ChainHeight(chain) THEN height
    ELSE ChainHeight(chain)

\* The blocks since the last difficulty change, not counting the anchor.
DefaultLookup_NoPlusOne(h) ==
    h % DifficultyAdjustmentInterval

\* Lines 80-84: the lookup that replaces a nonpositive one.
DefaultLookup(h) ==
    (h % DifficultyAdjustmentInterval) + 1

\* The lookup used as given.
ClampLookup_None(lookup, h) ==
    lookup

\* Lines 87-89: a lookup larger than the chain is set to the chain length.
ClampLookup(lookup, h) ==
    IF lookup > h THEN h ELSE lookup

Min2(a, b) ==
    IF a < b THEN a ELSE b

Max2(a, b) ==
    IF a > b THEN a ELSE b

RECURSIVE Walk(_, _, _, _)
\* Lines 94-99: the loop, from block pb0 with i iterations to go. GetPrev()
\* of the genesis block is nullptr, and reading its time is a null
\* dereference.
Walk(chain, w, i, lookup) ==
    IF i >= lookup THEN w
    ELSE IF w.pb0 = 0 THEN [w EXCEPT !.nullDeref = TRUE]
    ELSE LET prev == w.pb0 - 1
             time == GetBlockTime(chain, prev)
         IN  Walk(chain,
                  [w EXCEPT !.pb0 = prev,
                            !.minTime = Min2(time, w.minTime),
                            !.maxTime = Max2(time, w.maxTime),
                            !.links = w.links + 1],
                  i + 1, lookup)

\* A returned 0, and a returned quotient workDiff.getdouble() / timeDiff.
Zero(walk) ==
    [ zero |-> TRUE, workDiff |-> 0, timeDiff |-> 0, divByZero |-> FALSE,
      walk |-> walk ]

Quotient(workDiff, timeDiff, walk) ==
    [ zero |-> FALSE, workDiff |-> workDiff, timeDiff |-> timeDiff,
      divByZero |-> (timeDiff = 0), walk |-> walk ]

NoWalk ==
    [ pb0 |-> -1, minTime |-> 0, maxTime |-> 0, links |-> 0,
      nullDeref |-> FALSE ]

\* Lines 103-105: if (minTime == maxTime) return 0.
FlatWindow(walk) ==
    walk.minTime = walk.maxTime

\* Lines 68-111.
GetNetworkHashPS(chain, lookup, height) ==
    LET pb == Anchor(chain, height)
    IN  IF pb = -1 \/ pb = 0 THEN Zero(NoWalk)
        ELSE LET lookup1 == IF lookup <= 0 THEN DefaultLookup(pb) ELSE lookup
                 lookup2 == ClampLookup(lookup1, pb)
                 t0 == GetBlockTime(chain, pb)
                 walk == Walk(chain,
                              [ pb0 |-> pb, minTime |-> t0, maxTime |-> t0,
                                links |-> 0, nullDeref |-> FALSE ],
                              0, lookup2)
             IN  IF walk.nullDeref
                   THEN [Zero(walk) EXCEPT !.zero = FALSE]
                 ELSE IF FlatWindow(walk) THEN Zero(walk)
                 ELSE Quotient(GetChainWork(chain, pb)
                                   - GetChainWork(chain, walk.pb0),
                               walk.maxTime - walk.minTime, walk)

\* Lines 113-143: one getnetworkhashps call on the drawn chain and arguments.
Estimate ==
    /\ ev.kind = "hashps-call"
    /\ ev' = [ kind |-> "hashps", chain |-> ev.chain, lookup |-> ev.lookup,
               height |-> ev.height,
               anchor |-> Anchor(ev.chain, ev.height),
               res |-> GetNetworkHashPS(ev.chain, ev.lookup, ev.height) ]
    /\ UNCHANGED gbtVars
    /\ UNCHANGED subVars
    /\ UNCHANGED genVars
    /\ UNCHANGED lpVars

(* ------------------ getblocktemplate: transactions' fees --------------- *)

\* Fees of the template's transactions.
Fees ==
    0 .. MaxFee

\* The fee list's two layouts: one entry per transaction of the block, the
\* coinbase's first ("block"), or one entry per transaction after the
\* coinbase ("tail").
FeeLayouts ==
    { "block", "tail" }

\* pblocktemplate->vTxFees for a block of n transactions, fee[p] being the
\* fee of the transaction at block position p (position 0 is the coinbase).
TxFees(layout, n, fee) ==
    IF layout = "block"
      THEN [k \in 1 .. n |-> IF k = 1 THEN -1 ELSE fee[k - 1]]
      ELSE [k \in 1 .. n - 1 |-> fee[k]]

\* The index taken to be relative to the first transaction after the
\* coinbase.
FeeIndex_AfterCoinbase(i) ==
    i - 2

\* Line 737: unsigned int index_in_template = i - 1, i having been
\* incremented at line 712.
FeeIndex(i) ==
    i - 1

\* Line 738: vTxFees[index]; operator[] past the end is undefined, and
\* whatever lies there is read.
FeeRead(vTxFees, index, garbage) ==
    IF index < Len(vTxFees)
      THEN [inBounds |-> TRUE, fee |-> vTxFees[index + 1]]
      ELSE [inBounds |-> FALSE, fee |-> garbage]

\* Lines 708-741: one iteration of the loop over pblock->vtx.
WriteTransaction ==
    /\ ev.kind = "gbt-write"
    /\ ev.i < ev.n
    /\ \E garbage \in Fees :
          LET p     == ev.i
              i     == ev.i + 1
              index == FeeIndex(i)
              read  == FeeRead(ev.vTxFees, index, garbage)
          IN  /\ (index < Len(ev.vTxFees)) => garbage = 0
              /\ ev' = [ev EXCEPT
                          !.i = i,
                          !.transactions =
                             IF p = 0 THEN @
                             ELSE Append(@, [ pos |-> p, index |-> index,
                                              inBounds |-> read.inBounds,
                                              fee |-> read.fee ])]
    /\ UNCHANGED gbtVars
    /\ UNCHANGED subVars
    /\ UNCHANGED genVars
    /\ UNCHANGED lpVars

\* Line 744: the transactions array is closed.
WriteTransactionsEnd ==
    /\ ev.kind = "gbt-write"
    /\ ev.i = ev.n
    /\ ev' = [ev EXCEPT !.kind = "gbt-written"]
    /\ UNCHANGED gbtVars
    /\ UNCHANGED subVars
    /\ UNCHANGED genVars
    /\ UNCHANGED lpVars

(* ---------------------------- specifications --------------------------- *)

\* Statics are zero-initialised; the node is up, with a tip and a factory.
InitState ==
    /\ tip = 1
    /\ mempoolUpdated = 0
    /\ frozenAt = 0
    /\ now = 0
    /\ rpcRunning = TRUE
    /\ miningFactory = TRUE
    /\ nTransactionsUpdatedLast = 0
    /\ pindexPrev = Null
    /\ nStart = 0
    /\ pblocktemplate = NoTemplate
    /\ localMutex = 0
    /\ lastAttempt = "none"
    /\ pc = [c \in Callers |-> "idle"]
    /\ hashWatchedChain = [c \in Callers |-> GetBlockHash(Null)]
    /\ nTransactionsUpdatedLastLP = [c \in Callers |-> 0]
    /\ checktxtime = [c \in Callers |-> 0]
    /\ notified = {}
    /\ hist = [c \in Callers |-> NoHist]
    /\ mapBlockIndex = [h \in Hashes |-> "absent"]
    /\ registered = {}
    /\ sc = [s \in Submitters |-> StateCatcher(0)]
    /\ spc = [s \in Submitters |-> "idle"]
    /\ sub = [s \in Submitters |-> NoSub]
    /\ csBestBlock = 0
    /\ hashPrevBlock = GetBlockHash(Null)
    /\ gpc = [m \in Miners |-> "idle"]
    /\ gl = [m \in Miners |-> NoGen]

Init ==
    /\ InitState
    /\ node = "ready"
    /\ ev = NoEv

\* The node in any of the conditions the entry checks tell apart.
InitEntry ==
    /\ InitState
    /\ node \in NodeStates
    /\ ev = NoEv

\* getnetworkhashps about to be called on some chain with some arguments.
InitHashPS ==
    /\ InitState
    /\ node = "ready"
    /\ \E chain \in Chains, lookup \in Lookups, height \in Heights :
          ev = [ kind |-> "hashps-call", chain |-> chain, lookup |-> lookup,
                 height |-> height ]

\* Lines 638-786 for caller c: the template cache.
CacheStep(c) ==
    \/ ServeCached(c)
    \/ StartRebuild(c)
    \/ BuildDone(c)
    \/ BuildFailed(c)

\* Lines 595-636 for caller c: the long-poll wait.
LongPollStep(c) ==
    \/ RequestLongPoll(c)
    \/ LpCheck(c)
    \/ LpWake(c)
    \/ LpTimeout(c)
    \/ LpPost(c)

\* The clock within the template budget's horizon.
TickEarly ==
    TickTo(MaxStart + TemplateBudget + 1)

\* The clock up to the second long-poll deadline.
Tick ==
    TickTo(MaxStart + LongPollFirstTimeout + LongPollNextTimeout)

\* Concurrent template requests without longpollid against a changing tip,
\* mempool, watermark, clock and factory.
NextCache ==
    \/ \E c \in Callers : RequestTemplate(c) \/ CacheStep(c)
    \/ TipChange
    \/ MempoolUpdate
    \/ FrozenUpdate
    \/ TickEarly
    \/ FactoryChange

SpecCache ==
    Init /\ [][NextCache]_vars

\* Long-poll requests, from the wait through the cache to the response.
NextLongPoll ==
    \/ \E c \in Waiters : LongPollStep(c) \/ CacheStep(c)
    \/ TipChange
    \/ MempoolUpdate
    \/ Tick
    \/ Shutdown

SpecLongPoll ==
    Init /\ [][NextLongPoll]_vars

\* submitblock / verifyblockcandidate calls against an asynchronous
\* validation engine and a changing block index.
NextSubmit ==
    \/ \E s \in Submitters :
          \/ ProcessBlockEnter(s)
          \/ OperationReturns(s)
          \/ OperationRaises(s)
          \/ ProcessBlockFinish(s)
    \/ EngineNotifies
    \/ IndexChange

SpecSubmit ==
    Init /\ [][NextSubmit]_vars

\* Lines 142-220 for miner m: one generateBlocks call after entry.
GenerateStep(m) ==
    \/ GenerateLoop(m)
    \/ IenCompare(m)
    \/ IenUpdate(m)
    \/ PowTest(m)
    \/ SearchEnds(m)
    \/ SubmitSolved(m)

\* The callers of the single-call specification.
Soloists ==
    { 1 }

\* One generatetoaddress call at a time, with every block count and budget,
\* against a tip that other components move.
NextGenerate ==
    \/ \E m \in Soloists :
          \/ GenerateEnter(m, GenerateCounts, TryBudgets)
          \/ GenerateStep(m)
    \/ TipChange

SpecGenerate ==
    Init /\ [][NextGenerate]_vars

\* Concurrent generatetoaddress calls, each for one block with the full
\* budget, sharing IncrementExtraNonce's static.
NextExtraNonce2 ==
    \/ \E m \in Miners :
          \/ GenerateEnter(m, { 1 }, { MaxTries })
          \/ GenerateStep(m)
    \/ TipChange

SpecExtraNonce ==
    Init /\ [][NextExtraNonce2]_vars

\* getnetworkhashps calls over every chain and every pair of arguments.
NextHashPS ==
    Estimate

SpecHashPS ==
    InitHashPS /\ [][NextHashPS]_vars

\* Proposal-mode calls next to template requests, against a changing tip and
\* block index.
NextProposal ==
    \/ \E c \in Callers :
          \/ ProposalLookup(c)
          \/ ProposalValidate(c)
          \/ RequestTemplate(c)
          \/ CacheStep(c)
    \/ TipChange
    \/ IndexChange

SpecProposal ==
    Init /\ [][NextProposal]_vars

\* The response's transactions array about to be written for some template.
InitFees ==
    /\ InitState
    /\ node = "ready"
    /\ \E n \in 1 .. MaxTx, layout \in FeeLayouts :
          \E fee \in [1 .. n - 1 -> Fees] :
              ev = [ kind |-> "gbt-write", n |-> n, layout |-> layout,
                     fee |-> fee, vTxFees |-> TxFees(layout, n, fee),
                     i |-> 0, transactions |-> << >> ]

\* The loop over the template's transactions, for every template.
NextFees ==
    \/ WriteTransaction
    \/ WriteTransactionsEnd

SpecFees ==
    InitFees /\ [][NextFees]_vars

\* Template requests with and without longpollid, accepted or refused at
\* entry, while the node's condition and the tip change.
NextEntry ==
    \/ \E c \in Callers :
          \/ RequestTemplate(c)
          \/ RequestRefused(c)
          \/ CacheStep(c)
    \/ \E c \in Waiters :
          \/ RequestLongPoll(c)
          \/ LpCheck(c)
          \/ LpWake(c)
          \/ LpPost(c)
    \/ TipChange
    \/ NodeChange

SpecEntry ==
    InitEntry /\ [][NextEntry]_vars

\* Every caller free to ask for a template with or without longpollid:
\* waiters, builders and the tip's changes side by side.
NextWait ==
    \/ \E c \in Callers :
          \/ RequestTemplate(c)
          \/ CacheStep(c)
          \/ RequestLongPoll(c)
          \/ LpCheck(c)
          \/ LpWake(c)
          \/ LpPost(c)
    \/ TipChange

SpecWait ==
    Init /\ [][NextWait]_vars

\* Callers that pass back the longpollid of the response they have just
\* received, next to callers without longpollid, on a chain whose tip only
\* moves forward.
NextReissue ==
    \/ \E c \in Callers :
          \/ RequestTemplate(c)
          \/ CacheStep(c)
    \/ \E c \in Waiters :
          \/ ReissueLongPoll(c)
          \/ LpCheck(c)
          \/ LpWake(c)
          \/ LpTimeout(c)
          \/ LpPost(c)
    \/ TipAdvance
    \/ MempoolUpdate
    \/ Tick

SpecReissue ==
    Init /\ [][NextReissue]_vars

(* ------------------------------- claims -------------------------------- *)

\* The staleness predicate as the claims state it, over what a call read.
ClaimedStale(o) ==
    \/ o.cached # o.tip
    \/ /\ o.upd # o.last
       /\ (o.time - o.start > 5 \/ o.last < o.frozen)

\* The last step wrote a template response.
Responded ==
    \/ ev.kind = "built"
    \/ ev.kind = "decide" /\ ev.outcome = "cached"

\* C1 as stated: a call that reaches the cache invokes CreateNewBlock if and
\* only if the staleness predicate holds, and otherwise serves the cached
\* template.
C1_AsStated ==
    ev.kind = "decide" =>
        /\ (ev.outcome = "build") <=> ClaimedStale(ev.obs)
        /\ ~ClaimedStale(ev.obs) => ev.outcome = "cached"

\* C1, amended: a call that reaches the cache attempts a rebuild if and only
\* if the staleness predicate holds; the attempt invokes CreateNewBlock if
\* and only if a mining factory is configured, and otherwise fails without
\* invoking it. In every other case the cached template is served without a
\* rebuild.
C1_RebuildIffStale ==
    /\ ev.kind # "null-deref"
    /\ ev.kind = "decide" =>
          /\ (ev.outcome = "build") <=>
                (ClaimedStale(ev.obs) /\ ev.obs.factory)
          /\ (ev.outcome = "no-factory") <=>
                (ClaimedStale(ev.obs) /\ ~ev.obs.factory)
          /\ (ev.outcome = "cached") <=> ~ClaimedStale(ev.obs)

\* A call is served from the cache although the mempool counter has moved:
\* exactly five seconds after the build, snapshot not below the watermark.
C1_Witness ==
    /\ ev.kind = "decide"
    /\ ev.outcome = "cached"
    /\ ev.obs.upd # ev.obs.last
    /\ ev.obs.time - ev.obs.start = 5

\* C2: at most one rebuild is in progress at any time; a caller that arrived
\* while a rebuild was in flight decides only once no rebuild is in progress
\* and, finding the tip and the mempool counter as that rebuild left them,
\* serves the cached template instead of rebuilding.
C2_OneRebuildAtATime ==
    /\ Cardinality({c \in Callers : pc[c] = "build"}) <= 1
    /\ \A c \in Callers : pc[c] = "build" => localMutex = c
    /\ ev.kind \in {"decide", "null-deref"} =>
          \A c \in Callers \ {ev.caller} : pc[c] # "build"
    /\ ( /\ ev.kind \in {"decide", "null-deref"}
         /\ ev.inflight
         /\ ev.obs.cached = ev.obs.tip
         /\ ev.obs.upd = ev.obs.last )
       => (ev.kind = "decide" /\ ev.outcome = "cached")

\* A caller that arrived during another caller's rebuild is served the
\* template that rebuild produced.
C2_Witness ==
    /\ ev.kind = "decide"
    /\ ev.inflight
    /\ ev.outcome = "cached"
    /\ lastAttempt = "ok"

\* C3: every template response is on the tip the call read under cs_main:
\* the cached tip equals it, previousblockhash and height come from it, and
\* the hash in longpollid equals previousblockhash.
C3_ResponseOnObservedTip ==
    Responded =>
          /\ ev.resp.cachedTip = ev.resp.tipRead
          /\ ev.resp.previousblockhash = GetBlockHash(ev.resp.tipRead)
          /\ ev.resp.height = GetHeight(ev.resp.tipRead) + 1
          /\ ev.resp.longpollid.hash = ev.resp.previousblockhash

\* A response served from the cache after the tip moved away and a rebuild
\* followed it.
C3_Witness ==
    /\ ev.kind = "decide"
    /\ ev.outcome = "cached"
    /\ ev.resp.tipRead # 1

\* C4: a failed rebuild attempt (no factory, or no template from the
\* assembler) leaves the cache unbuilt; the next call that reaches the cache
\* attempts a rebuild and never serves or dereferences a template.
C4_FailedBuildLeavesUnbuilt ==
    /\ lastAttempt \in {"no-factory", "no-template"} => pindexPrev = Null
    /\ ev.kind # "null-deref"
    /\ (ev.kind = "decide" /\ ev.prevAttempt \in {"no-factory", "no-template"})
          => ev.outcome \in {"build", "no-factory"}

\* After an attempt failed for want of a factory, the next call rebuilds
\* although tip hash, mempool counter and clock are as the old template's.
C4_Witness ==
    /\ ev.kind = "decide"
    /\ ev.prevAttempt = "no-factory"
    /\ ev.outcome = "build"
    /\ ev.obs.upd = ev.obs.last
    /\ ev.obs.time = ev.obs.start
    /\ pblocktemplate # NoTemplate
    /\ pblocktemplate[1].prev = tip

\* C5: a wake (or the entry) that finds the tip different from the watched
\* hash leaves the wait loop there and then, whether or not the deadline has
\* passed; the caller does not go back to sleep.
C5_TipChangeEndsWait ==
    (ev.kind = "lp-check" /\ ev.tipSeen # ev.watched) =>
        /\ ~ev.stay
        /\ pc[ev.caller] = "lp_post"

\* A waiter woken by the tip-change signal leaves the loop before its first
\* deadline, with the service running.
C5_Witness ==
    /\ ev.kind = "lp-check"
    /\ ev.woke = "signal"
    /\ ev.tipSeen # ev.watched
    /\ ev.running
    /\ ev.time < ev.deadline
    /\ pc[ev.caller] = "lp_post"

\* C6: whenever the loop condition is evaluated with the service stopped the
\* wait ends, and a wait that ends with the service stopped fails with
\* "Shutting down" instead of going on to serve a template, whatever the tip
\* and the mempool counter are.
C6_ShutdownAbortsWait ==
    /\ (ev.kind = "lp-check" /\ ~ev.running) =>
          (~ev.stay /\ pc[ev.caller] = "lp_post")
    /\ (ev.kind = "lp-end" /\ ~ev.running) =>
          (ev.outcome = "shutting-down" /\ pc[ev.caller] = "idle")
    /\ (ev.kind = "lp-end" /\ ev.outcome = "returned") =>
          (ev.running /\ pc[ev.caller] = "lock")

\* A wait ends with the service stopped while both the tip and the mempool
\* counter differ from the baseline: the request fails.
C6_Witness ==
    /\ ev.kind = "lp-end"
    /\ ev.outcome = "shutting-down"
    /\ ev.tipNow # ev.watched
    /\ ev.updNow # ev.baseline

\* C7: the wait returns normally only if the loop saw a tip different from
\* the watched hash, or a timeout found the mempool counter different from
\* the baseline; and it leaves the loop as soon as either is seen.
C7_ReturnsOnlyWhenStale ==
    /\ (ev.kind = "lp-end" /\ ev.outcome = "returned") =>
          \/ ev.tipSeen # ev.watched
          \/ ev.woke = "timeout" /\ ev.updSeen # ev.baseline
    /\ (ev.kind = "lp-timeout" /\ ev.upd # ev.baseline) =>
          (ev.exit /\ pc[ev.caller] = "lp_post")
    /\ (ev.kind = "lp-timeout" /\ ev.upd = ev.baseline) =>
          (~ev.exit /\ pc[ev.caller] = "lp_check")

\* A wait returns because a timeout found the mempool counter changed, the
\* tip still being the watched one.
C7_Witness ==
    /\ ev.kind = "lp-end"
    /\ ev.outcome = "returned"
    /\ ev.woke = "timeout"
    /\ ev.tipSeen = ev.watched
    /\ ev.tipNow = ev.watched

\* C8: the deadline is 60 after the start of the wait plus 10 for every
\* timeout that found the mempool counter unchanged, and nothing else moves
\* it; timeouts happen only at or after the deadline; a wait that returns
\* with the tip unchanged returns no earlier than 60 after its start.
C8_Deadlines ==
    /\ \A c \in Callers :
          pc[c] \in {"lp_check", "lp_wait", "lp_post"} =>
              checktxtime[c] = hist[c].start + 60 + 10 * hist[c].timeouts
    /\ ev.kind = "lp-timeout" =>
          (ev.time >= ev.deadline /\ ev.deadline >= ev.start + 60)
    /\ (ev.kind = "lp-end" /\ ev.outcome = "returned"
           /\ ev.tipSeen = ev.watched) =>
          ev.time >= ev.start + 60

\* After one timeout a signalled wake found the tip unchanged: the waiter
\* sleeps again with the deadline still 70 after the start.
C8_Witness ==
    \E c \in Callers :
        /\ pc[c] = "lp_wait"
        /\ hist[c].timeouts = 1
        /\ hist[c].woke = "signal"
        /\ checktxtime[c] = hist[c].start + 70

\* C9: processBlock on a block with an allowed coinbase whose hash is known
\* and fully script-validated returns "duplicate", and on one marked invalid
\* returns "duplicate-invalid", in both cases before any collector is
\* registered and without calling the validation operation.
C9_KnownBlocksSkipValidation ==
    /\ \A s \in Submitters :
          spc[s] # "idle" => sub[s].status \notin {"valid", "invalid"}
    /\ (ev.kind = "submit" /\ ev.coinbase /\ ~ev.p2sh
           /\ ev.status \in {"valid", "invalid"}) =>
          /\ ev.early
          /\ ~ev.throws
          /\ ev.value = IF ev.status = "valid" THEN "duplicate"
                        ELSE "duplicate-invalid"
          /\ ev.calls = 0
          /\ ~ev.wasRegistered
          /\ ~ev.stillRegistered

\* A fully validated block is submitted again and answered "duplicate".
C9_Witness ==
    /\ ev.kind = "submit"
    /\ ev.status = "valid"
    /\ ev.value = "duplicate"
    /\ ev.calls = 0

\* C10 as stated: for a new block, if the collector was not notified for the
\* block's hash before the operation call returned, the result is
\* "inconclusive".
C10_AsStated ==
    (ev.kind = "submit" /\ ~ev.early /\ ~ev.present /\ ~ev.foundAtReturn) =>
        (ev.value = "inconclusive" /\ ~ev.throws)

\* C10, amended: for a new block, if the collector has not been notified for
\* the block's hash by the time it is unregistered, right after the single
\* operation call returns, the result is "inconclusive" whatever boolean the
\* operation reported; and once the call has returned processBlock can
\* always finish, without waiting for a notification.
C10_InconclusiveWhenNotNotified ==
    /\ (ev.kind = "submit" /\ ~ev.early /\ ~ev.present /\ ~ev.found) =>
          (ev.value = "inconclusive" /\ ~ev.throws /\ ev.calls = 1)
    /\ \A s \in Submitters :
          spc[s] = "returned" => ENABLED ProcessBlockFinish(s)

\* A new block's operation reported failure and no notification came:
\* the result is "inconclusive".
C10_Witness ==
    /\ ev.kind = "submit"
    /\ ~ev.early
    /\ ~ev.present
    /\ ~ev.found
    /\ ~ev.accepted
    /\ ev.value = "inconclusive"

\* C11 as stated: for a block already present but neither fully validated
\* nor marked invalid, the result is "duplicate-inconclusive" whenever the
\* operation reported success, whether or not the collector fired, and
\* "duplicate" otherwise.
C11_AsStated ==
    (ev.kind = "submit" /\ ~ev.early /\ ev.present) =>
        ev.value = IF ev.accepted THEN "duplicate-inconclusive"
                   ELSE "duplicate"

\* C11, amended: for such a block the call goes through validation and the
\* result is "duplicate-inconclusive" exactly when the operation reported
\* success and the collector did not fire; in every other case, including
\* success with the collector fired, it is "duplicate". The result is never
\* null, "inconclusive", a rejection reason, or a raised error.
C11_PresentBlockClassification ==
    /\ (ev.kind = "submit" /\ ev.coinbase /\ ~ev.p2sh
           /\ ev.status = "header") => (~ev.early /\ ev.present)
    /\ (ev.kind = "submit" /\ ~ev.early /\ ev.present) =>
          /\ ev.status = "header"
          /\ ~ev.throws
          /\ ev.value = IF ev.accepted /\ ~ev.found
                          THEN "duplicate-inconclusive"
                          ELSE "duplicate"

\* An already-present block was processed successfully with the collector
\* fired, and the answer is "duplicate".
C11_Witness ==
    /\ ev.kind = "submit"
    /\ ~ev.early
    /\ ev.present
    /\ ev.accepted
    /\ ev.found
    /\ ev.value = "duplicate"

\* C12: for a new block whose collector fired, the outcome is a function of
\* the captured state alone: valid gives null, invalid gives its reason or
\* "rejected" when the reason is empty, and an error state is raised with
\* its reason instead of being returned; the operation's boolean plays no
\* part.
C12_OutcomeFromCapturedState ==
    (ev.kind = "submit" /\ ~ev.early /\ ~ev.present /\ ev.found) =>
        /\ ev.state.mode = "valid" =>
              (~ev.throws /\ ev.value = "null")
        /\ (ev.state.mode = "invalid" /\ ev.state.reason # "") =>
              (~ev.throws /\ ev.value = ev.state.reason)
        /\ (ev.state.mode = "invalid" /\ ev.state.reason = "") =>
              (~ev.throws /\ ev.value = "rejected")
        /\ ev.state.mode = "error" =>
              (ev.throws /\ ev.value = ev.state.reason)

\* A new block's collector captured an error state while the operation
\* reported success: the error is raised.
C12_Witness ==
    /\ ev.kind = "submit"
    /\ ~ev.early
    /\ ~ev.present
    /\ ev.found
    /\ ev.accepted
    /\ ev.state.mode = "error"
    /\ ev.throws

\* C13 as stated: however processBlock exits (normal return, early return,
\* or a failure raised by the operation), the collector it created is no
\* longer registered, and a registered collector always belongs to a call
\* that is inside or has just left its single operation call.
C13_AsStated ==
    /\ \A s \in Submitters :
          s \in registered => spc[s] \in {"in-op", "returned"}
    /\ ev.kind \in {"submit", "submit-raised"} => ~ev.stillRegistered

\* The part of C13 that holds: on a normal or an early return the collector
\* is not registered afterwards, and a call that registered one made exactly
\* one operation call.
C13_PairedOnReturn ==
    ev.kind = "submit" =>
        /\ ~ev.stillRegistered
        /\ ev.wasRegistered <=> ev.calls = 1
        /\ ev.early <=> ev.calls = 0

\* The operation raised and the call's collector is still registered.
C13_Witness ==
    /\ ev.kind = "submit-raised"
    /\ ev.wasRegistered
    /\ ev.stillRegistered
    /\ ev.calls = 1

\* C14 as stated: a notification changes only collectors whose target is the
\* notified hash, and once a collector has found its block, later matching
\* notifications leave its stored state alone.
C14_AsStated ==
    ev.kind = "block-checked" =>
        \A s \in ev.to :
            /\ ev.before[s].hash # ev.hash => ev.after[s] = ev.before[s]
            /\ (ev.before[s].hash = ev.hash /\ ev.before[s].found) =>
                  ev.after[s] = ev.before[s]

\* C14, amended: a notification changes only collectors whose target is the
\* notified hash; every matching notification sets found and stores its
\* state, so the stored state is that of the latest matching notification,
\* and found never goes back to false while the collector is registered.
C14_LatestMatchStored ==
    ev.kind = "block-checked" =>
        \A s \in Submitters :
            IF s \in ev.to /\ ev.before[s].hash = ev.hash
              THEN /\ ev.after[s].found
                   /\ ev.after[s].state = ev.state
                   /\ ev.after[s].hash = ev.before[s].hash
              ELSE ev.after[s] = ev.before[s]

\* A collector that had already found its block is notified again with a
\* different state.
C14_Witness ==
    /\ ev.kind = "block-checked"
    /\ \E s \in ev.to :
          /\ ev.before[s].hash = ev.hash
          /\ ev.before[s].found
          /\ ev.before[s].state # ev.state
          /\ ev.after[s].state = ev.state

\* C15 as stated: in any sequence of IncrementExtraNonce calls, the extra
\* nonce after a call is 1 when the block's previous-block hash differs from
\* the hash the preceding call left stored, and otherwise one more than
\* before the call; so a mining loop's consecutive templates on the same
\* previous block get 1, 2, 3, ... with no repeat.
C15_AsStated ==
    ev.kind = "ien" =>
        /\ ev.after = IF ev.prev # ev.stored THEN 1 ELSE ev.before + 1
        /\ (ev.prev = ev.lastPrev /\ ev.lastNonce > 0) =>
              ev.after = ev.lastNonce + 1

\* The part of C15 that holds: the rule for every call that is not overtaken
\* between its comparison and its store, and the 1, 2, 3, ... sequence for
\* every loop no other loop has stored into the static of since its previous
\* call.
C15_ExtraNonceSequence ==
    ev.kind = "ien" =>
        /\ ~ev.raced =>
              ev.after = IF ev.prev # ev.stored THEN 1 ELSE ev.before + 1
        /\ ~ev.foreign =>
              ev.after = IF ev.prev = ev.lastPrev THEN ev.lastNonce + 1 ELSE 1

\* A call overtaken by another loop's call between its comparison and its
\* store: its extra nonce is increased although the hash the other call had
\* just stored differs from its block's.
C15_Witness ==
    /\ ev.kind = "ien"
    /\ ev.raced
    /\ ev.prev # ev.stored
    /\ ev.after = ev.before + 1
    /\ ev.after > 1

\* C16 as stated: the extra-nonce state is not shared between concurrent
\* mining loops: no two calls are inside IncrementExtraNonce's access to it
\* at once, and each loop's sequence (1 on a new previous block, +1
\* otherwise) is what it would be if no other loop existed.
C16_AsStated ==
    /\ \A m \in Miners, o \in Miners :
          (gpc[m] = "ien-store" /\ gpc[o] = "ien-store") => m = o
    /\ ev.kind = "ien" =>
          ev.after = IF ev.prev = ev.lastPrev THEN ev.lastNonce + 1 ELSE 1

\* Another loop stored its own previous-block hash in between, and this
\* loop's next template on the same previous block repeats extra nonce 1.
C16_Witness ==
    /\ ev.kind = "ien"
    /\ ev.foreign
    /\ ev.prev = ev.lastPrev
    /\ ev.lastNonce = 1
    /\ ev.after = 1

\* C17: after every IncrementExtraNonce call the header's merkle root is
\* the merkle root of the transactions with the updated coinbase (height and
\* extra nonce), and it stays so at every proof-of-work test and at
\* submission, across nonce-space exhaustion cycles.
C17_MerkleRootConsistent ==
    /\ \A m \in Miners :
          gpc[m] \in {"search", "solved"} =>
             /\ gl[m].pblock.coinbase =
                   CoinbaseScript(GetHeight(gl[m].pindexPrev) + 1,
                                  gl[m].nExtraNonce)
             /\ gl[m].pblock.hashMerkleRoot =
                   BlockMerkleRoot(gl[m].pblock.coinbase)
    /\ ev.kind \in {"ien", "pow", "submitted", "exhausted"} =>
          ev.block.hashMerkleRoot = BlockMerkleRoot(ev.block.coinbase)

\* A block is solved and submitted after one exhaustion cycle, with extra
\* nonce 2 in its coinbase and a matching merkle root.
C17_Witness ==
    /\ ev.kind = "submitted"
    /\ ev.block.coinbase.extraNonce = 2
    /\ ev.block.hashMerkleRoot = BlockMerkleRoot(ev.block.coinbase)

C19_AsStated ==
    \A m \in Miners : gl[m].tests <= gl[m].maxTries

\* C19, amended: the budget is decremented on every failed test and on no
\* successful one, so the failed tests never exceed the given nMaxTries and
\* the tests in total are the failed ones plus one per solved block.
C19_FailedTestsCharged ==
    /\ \A m \in Miners :
          /\ gl[m].nMaxTries >= 0
          /\ gl[m].nMaxTries <= gl[m].maxTries
          /\ gl[m].tests = (gl[m].maxTries - gl[m].nMaxTries)
                              + gl[m].submitted
                              + (IF gpc[m] = "solved" THEN 1 ELSE 0)
    /\ ev.kind = "generate" =>
          /\ ev.tests >= (ev.maxTries - ev.nMaxTries) + ev.submitted
          /\ ev.tests <= (ev.maxTries - ev.nMaxTries) + ev.submitted + 1

\* A call given a budget of 1 has made two tests, both successful.
C19_Witness ==
    \E m \in Miners :
        /\ gl[m].maxTries = 1
        /\ gl[m].nMaxTries = 1
        /\ gl[m].tests = 2

\* C20: the produced-block counter and the hash list grow together, by one,
\* only when a solved block was submitted and accepted; reaching the nonce
\* bound with budget left leads to a new template without adding a hash; a
\* returned list has at most nGenerate hashes, and exactly nGenerate unless
\* the budget reached 0, wherever the chain tip went meanwhile.
C20_ProducedOnlyWhenAccepted ==
    /\ \A m \in Miners :
          /\ Len(gl[m].blockHashes) = gl[m].nHeight
          /\ gl[m].nHeight = gl[m].submitted
          /\ gl[m].nHeight <= gl[m].nGenerate
    /\ ev.kind = "submitted" =>
          /\ ev.accepted
          /\ ev.after.nHeight = ev.nHeight + 1
          /\ Len(ev.after.blockHashes) = Len(ev.blockHashes) + 1
    /\ ev.kind = "exhausted" =>
          /\ ev.block.nNonce = nInnerLoopCount
          /\ ev.nMaxTries > 0
          /\ gpc[ev.miner] = "loop"
          /\ gl[ev.miner].blockHashes = ev.blockHashes
    /\ (ev.kind = "generate" /\ ~ev.throws) =>
          /\ Len(ev.blockHashes) <= ev.nGenerate
          /\ Len(ev.blockHashes) = ev.nGenerate \/ ev.nMaxTries = 0

\* A call for two blocks returns two hashes after at least one exhaustion
\* cycle, with budget left.
C20_Witness ==
    /\ ev.kind = "generate"
    /\ ~ev.throws
    /\ ev.nGenerate = 2
    /\ Len(ev.blockHashes) = 2
    /\ ev.nMaxTries = 1

(* ------------------------------- C25 ----------------------------------- *)

\* C25 as stated: the cached template is never changed in place; a call
\* served from the cache leaves the cached block's header as it was.
C25_AsStated ==
    (ev.kind = "decide" /\ ev.outcome = "cached") =>
        pblocktemplate = ev.before

\* C25: a call served from the cache keeps the cache entry and its tracking
\* state, and changes in the cached block, in place and holding the cache
\* mutex, only the time (refreshed to the current time) and the nonce (reset
\* to 0); the previous-block field stays as built and the response carries
\* the refreshed time.
C25_ServedInPlaceRefresh ==
    (ev.kind = "decide" /\ ev.outcome = "cached") =>
        /\ pblocktemplate # NoTemplate
        /\ pblocktemplate[1].prev = ev.before[1].prev
        /\ pblocktemplate[1].nTime = ev.obs.time
        /\ pblocktemplate[1].nNonce = 0
        /\ ev.resp.curtime = ev.obs.time
        /\ ev.resp.previousblockhash = GetBlockHash(ev.before[1].prev)
        /\ pindexPrev = ev.obs.cached
        /\ nStart = ev.obs.start
        /\ nTransactionsUpdatedLast = ev.obs.last
        /\ localMutex = 0

\* A template built earlier is served from the cache at a later time: the
\* cached block's time is no longer the one it was built with.
C25_Witness ==
    /\ ev.kind = "decide"
    /\ ev.outcome = "cached"
    /\ ev.before[1].nTime < ev.obs.time
    /\ pblocktemplate[1].nTime = ev.obs.time
    /\ pblocktemplate # ev.before

(* ----------------------------- C21, C22 -------------------------------- *)

\* The anchor as the claims word it: the block at at_height when
\* 0 <= at_height < tip height, else the tip (-1 when there is none).
ClaimedAnchor(chain, height) ==
    IF 0 <= height /\ height < Len(chain) - 1 THEN height ELSE Len(chain) - 1

\* The effective lookback as C21 words it, for an anchor of height h.
ClaimedLookback(lookup, h) ==
    IF 0 < lookup /\ lookup <= h THEN lookup
    ELSE IF lookup > h THEN h
    ELSE Min2(h, (h % DifficultyAdjustmentInterval) + 1)

\* The timestamps of the anchor and of the L blocks before it.
WindowTimes(chain, h, L) ==
    { chain[k + 1].time : k \in (h - L) .. h }

\* C21: for an anchor of height h > 0, the estimate walks L links back, with
\* L = lookback when 0 < lookback <= h, h when lookback > h and
\* min(h, h mod interval + 1) when lookback <= 0, and, the timestamps of
\* those L + 1 blocks not being all equal, returns chainwork(anchor) -
\* chainwork(block L links back) over max - min of those timestamps.
C21_EstimateOverWindow ==
    ev.kind = "hashps" =>
        LET h == ClaimedAnchor(ev.chain, ev.height)
            L == ClaimedLookback(ev.lookup, h)
            times == WindowTimes(ev.chain, h, L)
        IN  h > 0 =>
              /\ ev.anchor = h
              /\ ev.res.walk.links = L
              /\ ev.res.walk.pb0 = h - L
              /\ (\E a, b \in times : a # b) =>
                    /\ ~ev.res.zero
                    /\ ev.res.workDiff = GetChainWork(ev.chain, h)
                                           - GetChainWork(ev.chain, h - L)
                    /\ \E lo, hi \in times :
                          /\ \A t \in times : lo <= t /\ t <= hi
                          /\ ev.res.timeDiff = hi - lo

\* An estimate at a height below the tip with the default lookback, taken
\* over two blocks only because the interval has just started there, and an
\* estimate whose lookback was cut to the anchor's height.
C21_Witness ==
    /\ ev.kind = "hashps"
    /\ Len(ev.chain) = 4
    /\ \/ /\ ev.height = 2
          /\ ev.lookup = -1
          /\ ev.res.walk.links = 1
       \/ /\ ev.height = -1
          /\ ev.lookup = 4
          /\ ev.res.walk.links = 3
    /\ ~ev.res.zero
    /\ ev.res.workDiff > 1
    /\ ev.res.timeDiff = 2

\* C22: the estimate is 0 when there is no anchor or the anchor is the
\* genesis block, and when the timestamps over the window are all equal; for
\* every lookback and at_height it never divides by zero and never follows
\* the previous-block link of the genesis block.
C22_ZeroAndNoFault ==
    ev.kind = "hashps" =>
        LET h == ClaimedAnchor(ev.chain, ev.height) IN
        /\ ~ev.res.divByZero
        /\ ~ev.res.walk.nullDeref
        /\ h <= 0 => (ev.res.zero /\ ev.res.walk.links = 0)
        /\ h > 0 =>
              /\ ev.res.walk.pb0 >= 0
              /\ ev.res.walk.links <= h
              /\ (\A k \in ev.res.walk.pb0 .. h :
                      ev.chain[k + 1].time = ev.chain[h + 1].time)
                    => ev.res.zero
        /\ ~ev.res.zero => ev.res.timeDiff > 0

\* A lookback beyond the chain walks down to the genesis block and stops
\* there, over blocks that all carry the same time: the estimate is 0.
C22_Witness ==
    /\ ev.kind = "hashps"
    /\ ev.anchor = 3
    /\ ev.lookup > 3
    /\ ev.res.walk.pb0 = 0
    /\ ev.res.walk.links = 3
    /\ ev.res.zero

(* ------------------------------- C30 ----------------------------------- *)

\* C30: a waiter whose tip has changed without its being signalled still
\* leaves the wait at the expiry of its current deadline: the timed wait
\* reports the timeout at a deadline that is 60 after the start of the wait
\* or 10 after the previous deadline, and the loop condition evaluated after
\* a timeout sees the changed tip and ends the wait.
C30_TimeoutRechecksTip ==
    /\ ev.kind = "lp-timeout" =>
          /\ ev.deadline = ev.start + LongPollFirstTimeout
                             + LongPollNextTimeout * ev.timeouts
          /\ ev.time >= ev.deadline
          /\ pc[ev.caller] = IF ev.exit THEN "lp_post" ELSE "lp_check"
          /\ csBestBlock = ev.caller
    /\ (ev.kind = "lp-check" /\ ev.woke = "timeout"
            /\ ev.tipSeen # ev.watched) =>
          /\ ~ev.stay
          /\ pc[ev.caller] = "lp_post"
    /\ \A c \in Waiters :
          pc[c] = "lp_wait" =>
              checktxtime[c] = hist[c].start + LongPollFirstTimeout
                                 + LongPollNextTimeout * hist[c].timeouts

\* The tip changed during the wait and no signal reached the waiter; the
\* second deadline expires, the mempool is as it was, and the loop condition
\* is about to be evaluated against the changed tip.
C30_Witness ==
    /\ ev.kind = "lp-timeout"
    /\ ~ev.signalled
    /\ ~ev.exit
    /\ ev.timeouts = 1
    /\ GetBlockHash(tip) # hashWatchedChain[ev.caller]
    /\ pc[ev.caller] = "lp_check"

(* ------------------------------- C24 ----------------------------------- *)

\* C24: a proposal-mode call leaves the template cache and the long-poll
\* wait untouched. A hash known to the block index gives "duplicate" when
\* fully validated, "duplicate-invalid" when invalid and
\* "duplicate-inconclusive" otherwise, with no validation. An unknown block
\* whose previous-block hash is not the tip read under cs_main gives
\* "inconclusive-not-best-prevblk" and is not validated; an unknown block on
\* that tip is validated, and the result is null for a valid state and the
\* rejection reason ("rejected" when the state carries none) for an invalid
\* one, an error state being raised.
C24_ProposalClassification ==
    ev.kind = "proposal" =>
        /\ ev.before = CacheAndWait(ev.caller)
        /\ ev.status = "valid" => ev.res.value = "duplicate"
        /\ ev.status = "invalid" => ev.res.value = "duplicate-invalid"
        /\ ev.status = "header" => ev.res.value = "duplicate-inconclusive"
        /\ ev.status # "absent" => (~ev.validated /\ ~ev.res.throws)
        /\ (ev.status = "absent" /\ ev.prev # ev.tipRead) =>
              /\ ~ev.validated
              /\ ~ev.res.throws
              /\ ev.res.value = "inconclusive-not-best-prevblk"
        /\ ev.validated <=> (ev.status = "absent" /\ ev.prev = ev.tipRead)
        /\ ev.validated =>
              /\ ev.tipRead = GetBlockHash(tip)
              /\ ev.state.mode = "valid" =>
                    (~ev.res.throws /\ ev.res.value = "null")
              /\ ev.state.mode = "invalid" =>
                    /\ ~ev.res.throws
                    /\ ev.res.value = IF ev.state.reason = "" THEN "rejected"
                                      ELSE ev.state.reason
              /\ ev.state.mode = "error" => ev.res.throws

\* With a template cached, a proposal for an unknown block built on a block
\* that is not the tip is answered without validation.
C24_Witness ==
    /\ ev.kind = "proposal"
    /\ ev.status = "absent"
    /\ ev.prev # ev.tipRead
    /\ ev.prev # GetBlockHash(Null)
    /\ ev.res.value = "inconclusive-not-best-prevblk"
    /\ pblocktemplate # NoTemplate

(* ------------------------------- C27 ----------------------------------- *)

\* C27 as stated: with the fee list aligned to transactions[1:] (one entry
\* fewer than the block has transactions), every fee lookup is within the
\* list and the fee written for the transaction at position p is that
\* transaction's.
C27_AsStated ==
    (ev.kind \in {"gbt-write", "gbt-written"} /\ ev.layout = "tail") =>
        \A k \in 1 .. Len(ev.transactions) :
            LET e == ev.transactions[k]
            IN  e.inBounds /\ e.fee = ev.fee[e.pos]

\* C27: the fee lookup for the transaction at block position p reads entry p
\* of the fee list. With the fee list aligned to the block's transactions
\* (one entry each, the coinbase's first) every lookup is within the list
\* and the fee written is that transaction's; with the list aligned to
\* transactions[1:] the lookup for p reads the entry of the transaction at
\* p + 1 and, for the last transaction, reads past the end.
C27_FeeByBlockPosition ==
    ev.kind \in {"gbt-write", "gbt-written"} =>
        /\ Len(ev.transactions) = IF ev.i = 0 THEN 0 ELSE ev.i - 1
        /\ \A k \in 1 .. Len(ev.transactions) :
              LET e == ev.transactions[k]
              IN  /\ e.pos = k
                  /\ e.index = e.pos
                  /\ ev.layout = "block" =>
                        (e.inBounds /\ e.fee = ev.fee[e.pos])
                  /\ ev.layout = "tail" =>
                        /\ e.inBounds <=> e.pos < ev.n - 1
                        /\ e.inBounds => e.fee = ev.fee[e.pos + 1]

\* A template of four transactions with one fee entry each, written out
\* with three different fees.
C27_Witness ==
    /\ ev.kind = "gbt-written"
    /\ ev.layout = "block"
    /\ ev.n = 4
    /\ Len(ev.transactions) = 3
    /\ ev.fee[1] = 0 /\ ev.fee[2] = 1 /\ ev.fee[3] = 2
    /\ ev.transactions[3].fee = 2

(* ------------------------------- C23 ----------------------------------- *)

\* C23 as stated: no template is served, from the cache or after a rebuild,
\* at a time when peer-to-peer is disabled, no peer is connected or the
\* initial block download is under way; this holds for calls that waited in
\* long poll too.
C23_AsStated ==
    \/ ev.kind = "built"
    \/ ev.kind = "decide" /\ ev.outcome = "cached"
    => node = "ready"

\* What the entry checks do give: a call made while the node is not ready is
\* refused before the wait and the cache, and no call enters them then.
C23_RefusedAtEntry ==
    /\ ev.kind = "refused" =>
          /\ ev.node # "ready"
          /\ pc[ev.caller] = "idle"
    /\ ev.kind = "lp-enter" => node = "ready"

\* A caller entered the long poll with peers connected; the last peer went
\* away during the wait, the tip changed, and the call is served a template
\* with no peer connected.
C23_Witness ==
    /\ ev.kind \in {"built", "decide"}
    /\ ev.kind = "decide" => ev.outcome = "cached"
    /\ ev.polled
    /\ node = "not-connected"

(* ------------------------------- C26 ----------------------------------- *)

\* C26 as stated: every access to the cache's tracking state is made by a
\* caller holding the cache mutex, the baseline a long poll derives from a
\* non-string longpollid included, and the statics change only in steps of
\* the mutex's holder.
C26_AsStated ==
    /\ (ev.kind = "lp-enter" /\ ev.readsTracking) => ev.holder = ev.caller
    /\ \A c \in Callers : pc[c] = "build" => localMutex = c

\* A long poll with a non-string longpollid copies nTransactionsUpdatedLast
\* while another caller holds the cache mutex for a rebuild.
C26_Witness ==
    /\ ev.kind = "lp-enter"
    /\ ~ev.isStr
    /\ ev.readsTracking
    /\ ev.holder # 0
    /\ ev.holder # ev.caller
    /\ pc[ev.holder] = "build"

(* ------------------------------- C28 ----------------------------------- *)

\* C28: a caller blocked in the long-poll wait holds neither the cache mutex
\* nor cs_main nor the wait lock, and a caller at or past the cache mutex no
\* longer holds the wait lock. So each lock's holder can always take its
\* next step, a caller without longpollid can enter, build and be served
\* while another waits, and no caller is stuck behind a lock for good.
C28_WaitHoldsNoLock ==
    /\ \A c \in Callers :
          /\ pc[c] = "lp_wait" => (localMutex # c /\ csBestBlock # c)
          /\ pc[c] \in {"idle", "lock", "build"} => csBestBlock # c
          /\ csBestBlock = c => pc[c] \in {"lp_check", "lp_post"}
          /\ localMutex = c => pc[c] = "build"
          /\ pc[c] = "build" => (localMutex = c /\ ~CsMainFree)
          /\ pc[c] \in {"lp_check", "lp_post"} =>
                ENABLED (LpCheck(c) \/ LpPost(c))
          /\ pc[c] = "build" => ENABLED BuildDone(c)
          /\ (pc[c] = "lock" /\ localMutex = 0) => ENABLED CacheStep(c)
          /\ (pc[c] = "lp_wait" /\ csBestBlock = 0) => ENABLED LpWake(c)
    /\ (\E c \in Callers : pc[c] = "lp_wait") =>
          \A o \in Callers :
              /\ pc[o] = "idle" => ENABLED RequestTemplate(o)
              /\ (pc[o] = "lock" /\ localMutex = 0) => ENABLED CacheStep(o)

\* One caller is blocked in the wait while another has a template built and
\* is served it.
C28_Witness ==
    /\ ev.kind = "built"
    /\ \E c \in Callers :
          /\ c # ev.caller
          /\ pc[c] = "lp_wait"
          /\ hist[c].woke = "entry"

(* ------------------------------- C29 ----------------------------------- *)

\* C29: a call that passes back the longpollid of an earlier response and
\* whose wait returns normally is never served from the cache unless a
\* template has been built since that longpollid was issued; otherwise it
\* rebuilds. (The mempool counter only grows, the tip only moves forward
\* and the cache's clock is the clock of the wait's deadlines.)
C29_ReissueServedFromLaterBuild ==
    /\ (ev.kind = "decide" /\ ev.outcome = "cached" /\ ev.reissue) =>
          ev.rebuilt
    /\ (ev.kind = "lp-end" /\ ev.outcome = "returned"
            /\ hist[ev.caller].reissue /\ ~hist[ev.caller].rebuilt) =>
          \/ pindexPrev # tip
          \/ /\ mempoolUpdated # nTransactionsUpdatedLast
             /\ now - nStart > TemplateBudget

\* The wait of a call that passed back its longpollid ends on a timeout that
\* finds the mempool counter changed, nobody else has rebuilt, and the call
\* rebuilds.
C29_Witness ==
    /\ ev.kind = "decide"
    /\ ev.outcome = "build"
    /\ hist[ev.caller].reissue
    /\ ~hist[ev.caller].rebuilt
    /\ ev.obs.cached = ev.obs.tip
    /\ ev.obs.upd # ev.obs.last

====
